---- MODULE Spec2Model ----
(***************************************************************************)
(* content-scraper: the navigation crawler (core/navigation_crawler.js),   *)
(* the crawl loop of ContentScraperWithImages / EnhancedContentScraper and *)
(* the EnhancedImageDownloader (utils/image_downloader_enhanced.js, listed *)
(* in MIGRATION_STORYBLOK.md), the plain ContentScraper and the job        *)
(* registry of the ScraperServer (listed in CHANGELOG.md).                 *)
(*                                                                         *)
(* Strings are sequences of one-character strings, so that toLowerCase,    *)
(* includes, split and the URL parser are computed, not assumed.           *)
(***************************************************************************)
EXTENDS Integers, Sequences, FiniteSets, TLC

(* ----------------------------- bounds --------------------------------- *)
\* number of NavigationCrawler API calls explored in SpecNav
MaxNavCalls == 3

(* --------------------------- JS strings ------------------------------- *)
\* null / undefined: a one-element sequence holding a token that is no character
null == <<"null">>

UpperChars == <<"A", "B", "C", "D", "E", "F", "G", "H", "I", "J", "K", "L", "M", "N", "O", "P", "Q", "R", "S", "T", "U", "V", "W", "X", "Y", "Z">>
LowerChars == <<"a", "b", "c", "d", "e", "f", "g", "h", "i", "j", "k", "l", "m", "n", "o", "p", "q", "r", "s", "t", "u", "v", "w", "x", "y", "z">>

\* String.prototype.toLowerCase
lowerChar(c) ==
  IF \E j \in 1..Len(UpperChars) : UpperChars[j] = c
  THEN LowerChars[CHOOSE j \in 1..Len(UpperChars) : UpperChars[j] = c]
  ELSE c

\* lowerChar tabulated for the upper-case letters
LowerMap == [c \in {UpperChars[j] : j \in 1..Len(UpperChars)} |-> lowerChar(c)]

toLowerCase(s) == [i \in 1..Len(s) |-> IF s[i] \in DOMAIN LowerMap THEN LowerMap[s[i]] ELSE s[i]]

\* String.prototype.includes
includes(s, k) == \E i \in 0..(Len(s) - Len(k)) : SubSeq(s, i + 1, i + Len(k)) = k

\* String.prototype.startsWith
startsWith(s, k) == Len(s) >= Len(k) /\ SubSeq(s, 1, Len(k)) = k

\* String.prototype.indexOf(c, i) for a character c, 1-based; Len(s)+1 if absent
RECURSIVE indexOf(_, _, _)
indexOf(s, c, i) == IF i > Len(s) THEN Len(s) + 1
                    ELSE IF s[i] = c THEN i ELSE indexOf(s, c, i + 1)

indexOfSlash(s, i) == indexOf(s, "/", i)

\* String.prototype.split('/')
RECURSIVE splitSlash(_)
splitSlash(s) == LET j == indexOfSlash(s, 1)
                 IN IF j > Len(s) THEN <<s>>
                    ELSE <<SubSeq(s, 1, j - 1)>> \o splitSlash(SubSeq(s, j + 1, Len(s)))

\* Array.prototype.join('/')
RECURSIVE joinSlash(_)
joinSlash(parts) == IF Len(parts) = 0 THEN <<>>
                    ELSE IF Len(parts) = 1 THEN parts[1]
                    ELSE parts[1] \o <<"/">> \o joinSlash(Tail(parts))

\* Array.prototype.filter(p => p) on an array of strings: drops the empty ones
RECURSIVE filterNonEmpty(_)
filterNonEmpty(parts) == IF Len(parts) = 0 THEN <<>>
                         ELSE IF parts[1] = <<>> THEN filterNonEmpty(Tail(parts))
                         ELSE <<parts[1]>> \o filterNonEmpty(Tail(parts))

(* ------------------------------ URLs ---------------------------------- *)
Scheme == <<"h", "t", "t", "p", "s", ":", "/", "/">>

\* new URL(s): ok = FALSE stands for the TypeError of an unparsable string.
\* "https://" host [pathname] ["?" search]; an empty pathname is "/"
ParseUrl(s) ==
  IF ~startsWith(s, Scheme) THEN [ok |-> FALSE, hostname |-> <<>>, pathname |-> <<>>, search |-> <<>>]
  ELSE LET rest == SubSeq(s, Len(Scheme) + 1, Len(s))
           q == indexOf(rest, "?", 1)
           noSearch == SubSeq(rest, 1, q - 1)
           j == indexOfSlash(noSearch, 1)
           host == SubSeq(noSearch, 1, j - 1)
           path == SubSeq(noSearch, j, Len(noSearch))
       IN IF host = <<>> THEN [ok |-> FALSE, hostname |-> <<>>, pathname |-> <<>>, search |-> <<>>]
          ELSE [ok |-> TRUE, hostname |-> host,
                pathname |-> IF path = <<>> THEN <<"/">> ELSE path,
                search |-> SubSeq(rest, q, Len(rest))]

Host == <<"e", "x", ".", "i", "o">>
OtherHost == <<"c", "d", "n", ".", "i", "o">>
Page(path) == Scheme \o Host \o path

P_root == Page(<<>>)
P_rootSlash == Page(<<"/">>)
P_a == Page(<<"/", "a">>)
P_b == Page(<<"/", "b">>)
P_agb == Page(<<"/", "a", "g", "b">>)
P_AGB == Page(<<"/", "A", "G", "B">>)
P_x == Page(<<"/", "e", "n", "/", "p", "/", "x">>)
P_y == Page(<<"/", "e", "n", "/", "p", "/", "y">>)
P_z == Page(<<"/", "e", "n", "/", "q", "/", "z">>)
P_ext == Scheme \o OtherHost \o <<"/", "a">>
P_bad == Scheme

\* image urls: two that differ in the query string only, a copy on another path and
\* host, and a src that new URL() rejects
I_a == Scheme \o OtherHost \o <<"/", "i", "/", "a", ".", "p", "n", "g">>
I_a2 == Scheme \o OtherHost \o <<"/", "i", "/", "a", ".", "p", "n", "g", "?", "v", "=", "2">>
I_copy == Scheme \o Host \o <<"/", "c", "/", "a", ".", "p", "n", "g">>
I_rel == <<"i", "/", "a", ".", "p", "n", "g">>

\* the printable ASCII characters, from code 32 on (codes 34, 92 and 96 by name)
Ascii == <<" ", "!", "quote", "#", "$", "%", "&", "'", "(", ")", "*", "+", ",", "-", ".", "/", "0", "1", "2", "3", "4", "5", "6", "7", "8", "9", ":", ";", "<", "=", ">", "?", "@", "A", "B", "C", "D", "E", "F", "G", "H", "I", "J", "K", "L", "M", "N", "O", "P", "Q", "R", "S", "T", "U", "V", "W", "X", "Y", "Z", "[", "backslash", "]", "^", "_", "backquote", "a", "b", "c", "d", "e", "f", "g", "h", "i", "j", "k", "l", "m", "n", "o", "p", "q", "r", "s", "t", "u", "v", "w", "x", "y", "z", "{", "|", "}", "~">>
Digits36 == <<"0", "1", "2", "3", "4", "5", "6", "7", "8", "9", "a", "b", "c", "d", "e", "f", "g", "h", "i", "j", "k", "l", "m", "n", "o", "p", "q", "r", "s", "t", "u", "v", "w", "x", "y", "z">>

\* String.prototype.charCodeAt for one character
charCode(c) == 31 + CHOOSE i \in 1..Len(Ascii) : Ascii[i] = c

\* legal keywords: the defaults of the constructor, and two configured lists
K_agb == <<"a", "g", "b">>
K_AGB == <<"A", "G", "B">>
K_terms == <<"t", "e", "r", "m", "s">>
DefaultLegalKeywords == <<<<"i", "m", "p", "r", "e", "s", "s", "u", "m">>, <<"d", "a", "t", "e", "n", "s", "c", "h", "u", "t", "z">>, <<"a", "g", "b">>, <<"p", "r", "i", "v", "a", "c", "y">>, <<"t", "e", "r", "m", "s">>, <<"l", "e", "g", "a", "l">>, <<"c", "o", "o", "k", "i", "e", "s">>, <<"d", "i", "s", "c", "l", "a", "i", "m", "e", "r">>>>

VARIABLES
  config,         \* NavigationCrawler.config: maxLevel, levelLimits, legalKeywords
  urlLevels,      \* Map url -> level
  levelCounts,    \* Map level -> count
  categoryPages,  \* Map category -> array of urls
  navCalls,       \* number of API calls made so far (SpecNav)
  navLast,        \* the last API call: operation, arguments, return value
  baseUrl,        \* ContentScraperWithImages.baseUrl
  maxPages,       \* ContentScraperWithImages.maxPages
  pendingUrls,    \* array of {url, parentUrl, level, isNavigation}
  visitedUrls,    \* Set of urls
  scrapedPages,   \* array of page records
  failedPages,    \* array of {url}
  pc,             \* position of scrapeWebsite: "new", "loop", "fetch", "done"
  cur,            \* the item taken by the running loop iteration
  admitted,       \* history: every item pushed to pendingUrls by scrapePage
  discovered,     \* history: the internal links of the page scrapePage just returned, each
                  \* with the decision taken on it (empty once the loop moved on)
  dispatched,     \* history: every url handed to scrapePage, with the level registerUrl gave
  maxSize,        \* EnhancedImageDownloader.maxSize
  hashToPath,     \* Map hash -> local path
  urlToHash,      \* Map url -> hash
  urlToPath,      \* Map url -> local path
  stats,          \* {total, downloaded, duplicates, failed, totalSize}
  disk,           \* the files written: path -> bytes
  dirs,           \* the directories created by mkdirSync
  dl,             \* the downloadImage call in flight: its locals and its promise
  batch,          \* the downloadAllImages call: its locals
  manifest,       \* what generateManifest returned last
  writes,         \* history: every writeFileSync of image bytes
  requests,       \* history: every protocol.get issued
  late,           \* the events still to come for a request whose promise has settled
  calls,          \* history: every settled downloadImage call
  jobs,           \* ScraperServer: the job objects by id
  activeJobs,     \* ScraperServer.activeJobs: the ids whose job object the Map holds
  jobHistory,     \* ScraperServer.jobHistory: array of job objects, here their ids
  scrapes         \* the ids whose runScrapingJob still awaits scrapeAndExport

navVars == <<config, urlLevels, levelCounts, categoryPages>>
apiVars == <<navCalls, navLast>>
crawlVars == <<baseUrl, maxPages, pendingUrls, visitedUrls, scrapedPages, failedPages, pc, cur, admitted,
              discovered, dispatched>>
regVars == <<hashToPath, urlToHash, urlToPath>>
dlVars == <<maxSize, regVars, stats, disk, dirs, dl, batch, manifest, writes, requests, late, calls>>
serverVars == <<jobs, activeJobs, jobHistory, scrapes>>
vars == <<navVars, apiVars, crawlVars, dlVars, serverVars>>

(* ------------------------- Map helpers -------------------------------- *)
EmptyMap == <<>>
MapHas(m, k) == k \in DOMAIN m
\* Map.prototype.get(k) || d : undefined and 0 both give d
GetOr(m, k, d) == IF k \in DOMAIN m /\ m[k] # 0 THEN m[k] ELSE d
MapSet(m, k, v) == (k :> v) @@ m

\* the ScraperServer after its constructor
InitServerIdle ==
  /\ jobs = EmptyMap
  /\ activeJobs = {}
  /\ jobHistory = <<>>
  /\ scrapes = {}

\* the downloader after its constructor
NoResult == [kind |-> "none"]
Idle == [phase |-> "idle"]

InitDownloader ==
  /\ hashToPath = EmptyMap
  /\ urlToHash = EmptyMap
  /\ urlToPath = EmptyMap
  /\ stats = [total |-> 0, downloaded |-> 0, duplicates |-> 0, failed |-> 0, totalSize |-> 0]
  /\ disk = EmptyMap
  /\ dirs = {}
  /\ dl = Idle
  /\ batch = [phase |-> "idle"]
  /\ manifest = [generated |-> FALSE]
  /\ writes = <<>>
  /\ requests = <<>>
  /\ late = <<>>
  /\ calls = <<>>

(* ----------------------- NavigationCrawler ---------------------------- *)
DefaultLevelLimits == (1 :> -1) @@ (2 :> -1) @@ (3 :> 1)

\* new NavigationCrawler(cfg): an option that is absent (or falsy) takes its default
NavigationCrawler(cfg) ==
  [maxLevel |-> IF "maxLevel" \in DOMAIN cfg /\ cfg.maxLevel # 0 THEN cfg.maxLevel ELSE 3,
   levelLimits |-> IF "levelLimits" \in DOMAIN cfg THEN cfg.levelLimits ELSE DefaultLevelLimits,
   legalKeywords |-> IF "legalKeywords" \in DOMAIN cfg THEN cfg.legalKeywords
                     ELSE DefaultLegalKeywords]

isLegalPage(url) ==
  LET urlLower == toLowerCase(url)
  IN \E i \in 1..Len(config.legalKeywords) : includes(urlLower, config.legalKeywords[i])

determineLevel_RootIsZero(url, parentUrl) ==
  IF isLegalPage(url) THEN 0
  ELSE IF parentUrl = null \/ parentUrl = <<>> THEN 0
  ELSE GetOr(urlLevels, parentUrl, 0) + 1

determineLevel(url, parentUrl) ==
  IF isLegalPage(url) THEN 0
  ELSE IF parentUrl = null \/ parentUrl = <<>> THEN 1
  ELSE GetOr(urlLevels, parentUrl, 0) + 1

shouldCrawl_NoMaxLevel(url, parentUrl) ==
  LET level == determineLevel(url, parentUrl)
  IN IF level = 0 THEN TRUE
     ELSE IF level \notin DOMAIN config.levelLimits THEN FALSE
     ELSE IF config.levelLimits[level] = -1 THEN TRUE
     ELSE GetOr(levelCounts, level, 0) < config.levelLimits[level]

shouldCrawl_LegalLimited(url, parentUrl) ==
  LET level == determineLevel(url, parentUrl)
  IN IF level > config.maxLevel THEN FALSE
     ELSE IF level \notin DOMAIN config.levelLimits THEN FALSE
     ELSE IF config.levelLimits[level] = -1 THEN TRUE
     ELSE GetOr(levelCounts, level, 0) < config.levelLimits[level]

shouldCrawl(url, parentUrl) ==
  LET level == determineLevel(url, parentUrl)
  IN IF level = 0 THEN TRUE
     ELSE IF level > config.maxLevel THEN FALSE
     ELSE IF level \notin DOMAIN config.levelLimits THEN FALSE
     ELSE IF config.levelLimits[level] = -1 THEN TRUE
     ELSE GetOr(levelCounts, level, 0) < config.levelLimits[level]

\* registerUrl: the two Maps after the call, and the return value
registerUrl(url, parentUrl) ==
  LET level == determineLevel(url, parentUrl)
  IN [urlLevels |-> MapSet(urlLevels, url, level),
      levelCounts |-> MapSet(levelCounts, level, GetOr(levelCounts, level, 0) + 1),
      ret |-> level]

getCategory(url) ==
  LET pathParts == filterNonEmpty(splitSlash(ParseUrl(url).pathname))
      cat == joinSlash(SubSeq(pathParts, 1, IF Len(pathParts) < 2 THEN Len(pathParts) ELSE 2))
  IN IF cat = <<>> THEN <<"r", "o", "o", "t">> ELSE cat

shouldCrawlLevel3(cats, url) ==
  LET category == getCategory(url)
      pagesInCategory == IF category \in DOMAIN cats THEN cats[category] ELSE <<>>
      limit == GetOr(config.levelLimits, 3, 1)
  IN Len(pagesInCategory) < limit

registerLevel3Page(cats, url) ==
  LET category == getCategory(url)
      pagesInCategory == IF category \in DOMAIN cats THEN cats[category] ELSE <<>>
  IN MapSet(cats, category, Append(pagesInCategory, url))

\* a comparator that calls every pair in order
compareUrls_AlwaysLess(a, b) == -1

\* the comparator of prioritizeUrls: negative, zero or positive
sortLevel(item) == GetOr(urlLevels, item.url, 999)

compareUrls(a, b) ==
  LET levelA == sortLevel(a)
      levelB == sortLevel(b)
  IN IF levelA = 0 /\ levelB # 0 THEN -1
     ELSE IF levelB = 0 /\ levelA # 0 THEN 1
     ELSE IF levelA # levelB THEN levelA - levelB
     ELSE IF a.isNavigation /\ ~b.isNavigation THEN -1
     ELSE IF b.isNavigation /\ ~a.isNavigation THEN 1
     ELSE 0

\* Array.prototype.sort is stable: insert x after the last element not greater than it
RECURSIVE insertSorted(_, _)
insertSorted(sorted, x) ==
  IF Len(sorted) = 0 THEN <<x>>
  ELSE LET last == sorted[Len(sorted)]
       IN IF compareUrls(last, x) <= 0 THEN Append(sorted, x)
          ELSE Append(insertSorted(SubSeq(sorted, 1, Len(sorted) - 1), x), last)

RECURSIVE sortFrom(_, _)
sortFrom(sorted, urls) ==
  IF Len(urls) = 0 THEN sorted ELSE sortFrom(insertSorted(sorted, Head(urls)), Tail(urls))

prioritizeUrls(urls) == sortFrom(<<>>, urls)

\* the sum of the values of a Map with numeric values
RECURSIVE sumValues(_, _)
sumValues(m, keys) ==
  IF keys = {} THEN 0
  ELSE LET k == CHOOSE x \in keys : TRUE IN m[k] + sumValues(m, keys \ {k})

\* getStats(): totalUrls is urlLevels.size, byLevel has one count per key of levelCounts,
\* under the name 'legal' for level 0 and 'level<n>' otherwise
getStats ==
  [totalUrls |-> Cardinality(DOMAIN urlLevels),
   byLevel |-> {[name |-> IF level = 0 THEN <<"legal">> ELSE <<"level", level>>,
                 count |-> levelCounts[level]] : level \in DOMAIN levelCounts}]

(* ------------------ ContentScraperWithImages: crawl ------------------- *)
\* normalizeUrl for an absolute href: the parsed URL's href without one trailing slash
normalizeUrl(href) ==
  LET u == ParseUrl(href)
      full == Scheme \o u.hostname \o u.pathname \o u.search
  IN IF ~u.ok THEN null
     ELSE IF full[Len(full)] = "/" THEN SubSeq(full, 1, Len(full) - 1) ELSE full

\* a host test that lets every url through
isInternalUrl_Always(url) == TRUE

isInternalUrl(url) ==
  LET urlObj == ParseUrl(url)
      baseObj == ParseUrl(baseUrl)
  IN urlObj.ok /\ baseObj.ok /\ urlObj.hostname = baseObj.hostname

\* the number of items pushed so far at this level in the category of url
priorMembers(adm, url, level) ==
  Cardinality({i \in DOMAIN adm : adm[i].level = level /\ getCategory(adm[i].url) = getCategory(url)})

\* the body of the loop over navLinks in scrapePage, for one link.
\* st = [pending, cats, adm, log]; log gets one entry per internal link: the link, the
\* level it classifies at, what the frontier knew of it, and whether it was pushed.
\* pushLink: the link is pushed (and, at level 3, entered in its category bucket) or not
pushLink(st, absoluteUrl, isNav, url, level, push) ==
  [pending |-> IF push THEN Append(st.pending, [url |-> absoluteUrl, parentUrl |-> url,
                                                level |-> level, isNavigation |-> isNav])
               ELSE st.pending,
   cats |-> IF push /\ level = 3 THEN registerLevel3Page(st.cats, absoluteUrl) ELSE st.cats,
   adm |-> IF push THEN Append(st.adm, [url |-> absoluteUrl, parentUrl |-> url,
                                        level |-> level, isNavigation |-> isNav])
           ELSE st.adm,
   log |-> Append(st.log, [url |-> absoluteUrl, parentUrl |-> url, level |-> level,
                           visited |-> absoluteUrl \in visitedUrls,
                           prior |-> priorMembers(st.adm, absoluteUrl, level),
                           enqueued |-> push])]

\* the admission test: not visited, shouldCrawl, and at level 3 shouldCrawlLevel3
admitLink(st, absoluteUrl, isNav, url, level) ==
  pushLink(st, absoluteUrl, isNav, url, level,
           /\ absoluteUrl \notin visitedUrls
           /\ shouldCrawl(absoluteUrl, url)
           /\ (level = 3 => shouldCrawlLevel3(st.cats, absoluteUrl)))

\* links that do not parse or leave the site are skipped
internalLink(st, absoluteUrl, isNav, url) ==
  IF absoluteUrl = null \/ ~isInternalUrl(absoluteUrl) THEN st
  ELSE admitLink(st, absoluteUrl, isNav, url, determineLevel(absoluteUrl, url))

processLink(st, link, url) == internalLink(st, normalizeUrl(link.href), link.isNavigation, url)

RECURSIVE processLinks(_, _, _)
processLinks(st, links, url) ==
  IF Len(links) = 0 THEN st
  ELSE processLinks(processLink(st, Head(links), url), Tail(links), url)

\* extractNavigationLinks: the anchors of the navigation selectors first, the
\* footer anchors after them; empty and "#..." hrefs are skipped
RECURSIVE extractLinks(_, _)
extractLinks(hrefs, isNav) ==
  IF Len(hrefs) = 0 THEN <<>>
  ELSE LET href == Head(hrefs)
       IN (IF href # <<>> /\ ~startsWith(href, <<"#">>)
           THEN <<[href |-> href, isNavigation |-> isNav]>> ELSE <<>>)
          \o extractLinks(Tail(hrefs), isNav)

extractNavigationLinks(navHrefs, footerHrefs) ==
  extractLinks(navHrefs, TRUE) \o extractLinks(footerHrefs, FALSE)

\* what a fetched page may carry: the hrefs of its navigation anchors and the hrefs of
\* its footer anchors, each in document order
PageAnchors ==
  {[nav |-> <<>>, footer |-> <<>>],
   [nav |-> <<P_a>>, footer |-> <<P_agb>>],
   [nav |-> <<P_a, P_a>>, footer |-> <<>>],
   [nav |-> <<P_a>>, footer |-> <<P_bad, P_x>>],
   [nav |-> <<P_x, P_y>>, footer |-> <<P_bad, P_x>>],
   [nav |-> <<P_y, P_z, P_x>>, footer |-> <<>>],
   [nav |-> <<P_agb, P_b>>, footer |-> <<>>],
   [nav |-> <<P_agb, P_x, P_y>>, footer |-> <<>>],
   [nav |-> <<P_ext, <<"#">>, P_rootSlash>>, footer |-> <<P_AGB>>]}

\* the configurations of the crawl: constructor options of ContentScraperWithImages
CrawlConfigs ==
  {[headless |-> TRUE],
   [maxLevel |-> 2],
   [maxLevel |-> 2, levelLimits |-> (1 :> -1) @@ (2 :> 1)],
   [maxLevel |-> 3, levelLimits |-> (1 :> -1) @@ (2 :> -1) @@ (3 :> 2)],
   [maxLevel |-> 3, levelLimits |-> (1 :> -1) @@ (2 :> -1) @@ (3 :> -1)]}

\* the options ContentScraperWithImages hands to its NavigationCrawler
CrawlerOptions(cfg) ==
  [maxLevel |-> IF "maxLevel" \in DOMAIN cfg /\ cfg.maxLevel # 0 THEN cfg.maxLevel ELSE 3,
   levelLimits |-> IF "levelLimits" \in DOMAIN cfg THEN cfg.levelLimits ELSE DefaultLevelLimits]

InitCrawl ==
  /\ \E cfg \in CrawlConfigs : config = NavigationCrawler(CrawlerOptions(cfg))
  /\ urlLevels = EmptyMap
  /\ levelCounts = EmptyMap
  /\ categoryPages = EmptyMap
  /\ navCalls = 0
  /\ navLast = [op |-> "none"]
  /\ baseUrl \in {P_root, P_rootSlash}
  /\ maxPages \in {2, 3}
  /\ pendingUrls = <<>>
  /\ visitedUrls = {}
  /\ scrapedPages = <<>>
  /\ failedPages = <<>>
  /\ pc = "new"
  /\ cur = [url |-> null, parentUrl |-> null, level |-> 0]
  /\ admitted = <<>>
  /\ discovered = <<>>
  /\ dispatched = <<>>
  /\ InitDownloader
  /\ InitServerIdle
  /\ maxSize = 2

\* this.visitedUrls.has(url): the guard of the loop iteration
alreadyVisited_Never(url) == FALSE
alreadyVisited(url) == url \in visitedUrls

\* scrapeWebsite up to the loop: the seed is pushed
StartCrawl ==
  /\ pc = "new"
  /\ pendingUrls' = Append(pendingUrls, [url |-> baseUrl, parentUrl |-> null, level |-> 1,
                                         isNavigation |-> TRUE])
  /\ pc' = "loop"
  /\ UNCHANGED <<serverVars, dlVars, navVars, apiVars, baseUrl, maxPages, visitedUrls, scrapedPages, failedPages,
                 cur, admitted, discovered, dispatched>>

\* the loop running on whatever the page count
LoopCondition_NoBudget == Len(pendingUrls) > 0
LoopCondition == Len(pendingUrls) > 0 /\ Len(scrapedPages) < maxPages

\* one loop iteration up to the await of scrapePage: sort, shift, mark visited, register
Dequeue ==
  /\ pc = "loop"
  /\ LoopCondition
  /\ LET sorted == prioritizeUrls(pendingUrls)
         item == Head(sorted)
         reg == registerUrl(item.url, item.parentUrl)
     IN /\ ~alreadyVisited(item.url)
        /\ pendingUrls' = Tail(sorted)
        /\ visitedUrls' = visitedUrls \cup {item.url}
        /\ urlLevels' = reg.urlLevels
        /\ levelCounts' = reg.levelCounts
        /\ cur' = [url |-> item.url, parentUrl |-> item.parentUrl, level |-> reg.ret]
        /\ dispatched' = Append(dispatched, [url |-> item.url, parentUrl |-> item.parentUrl,
                                              level |-> reg.ret])
  /\ pc' = "fetch"
  /\ discovered' = <<>>
  /\ UNCHANGED <<serverVars, dlVars, config, categoryPages, apiVars, baseUrl, maxPages, scrapedPages, failedPages,
                 admitted>>

\* continue without the shift: the visited item stays at the head of the frontier
DequeueVisited_NoShift ==
  /\ pc = "loop"
  /\ LoopCondition
  /\ alreadyVisited(Head(prioritizeUrls(pendingUrls)).url)
  /\ pendingUrls' = prioritizeUrls(pendingUrls)
  /\ discovered' = <<>>
  /\ UNCHANGED <<serverVars, dlVars, navVars, apiVars, baseUrl, maxPages, visitedUrls, scrapedPages, failedPages,
                 pc, cur, admitted, dispatched>>

\* a loop iteration that takes an item whose url was visited meanwhile: continue
DequeueVisited ==
  /\ pc = "loop"
  /\ LoopCondition
  /\ LET sorted == prioritizeUrls(pendingUrls)
     IN /\ alreadyVisited(Head(sorted).url)
        /\ pendingUrls' = Tail(sorted)
  /\ discovered' = <<>>
  /\ UNCHANGED <<serverVars, dlVars, navVars, apiVars, baseUrl, maxPages, visitedUrls, scrapedPages, failedPages,
                 pc, cur, admitted, dispatched>>

\* page.goto and page.content succeed: the links are processed, the page is recorded
FetchOk ==
  /\ pc = "fetch"
  /\ \E html \in PageAnchors :
         LET navLinks == extractNavigationLinks(html.nav, html.footer)
             st == processLinks([pending |-> pendingUrls, cats |-> categoryPages,
                                 adm |-> admitted, log |-> <<>>], navLinks, cur.url)
         IN /\ pendingUrls' = st.pending
            /\ categoryPages' = st.cats
            /\ admitted' = st.adm
            /\ discovered' = st.log
  /\ scrapedPages' = Append(scrapedPages, [url |-> cur.url, level |-> cur.level])
  /\ pc' = "loop"
  /\ UNCHANGED <<serverVars, dlVars, config, urlLevels, levelCounts, apiVars, baseUrl, maxPages, visitedUrls,
                 failedPages, cur, dispatched>>

\* scrapePage rethrowing a failure out of the loop
FetchFail_EndsCrawl ==
  /\ pc = "fetch"
  /\ failedPages' = Append(failedPages, [url |-> cur.url])
  /\ pc' = "done"
  /\ UNCHANGED <<serverVars, dlVars, navVars, apiVars, baseUrl, maxPages, pendingUrls, visitedUrls, scrapedPages,
                 cur, admitted, discovered, dispatched>>

\* page.goto throws: the catch block of scrapePage records the failure
FetchFail ==
  /\ pc = "fetch"
  /\ failedPages' = Append(failedPages, [url |-> cur.url])
  /\ pc' = "loop"
  /\ UNCHANGED <<serverVars, dlVars, navVars, apiVars, baseUrl, maxPages, pendingUrls, visitedUrls, scrapedPages,
                 cur, admitted, discovered, dispatched>>

\* the loop condition fails: the crawl phase is over
LoopExit ==
  /\ pc = "loop"
  /\ ~LoopCondition
  /\ pc' = "done"
  /\ discovered' = <<>>
  /\ UNCHANGED <<serverVars, dlVars, navVars, apiVars, baseUrl, maxPages, pendingUrls, visitedUrls, scrapedPages,
                 failedPages, cur, admitted, dispatched>>

NextCrawl == StartCrawl \/ Dequeue \/ DequeueVisited \/ FetchOk \/ FetchFail \/ LoopExit

Spec == InitCrawl /\ [][NextCrawl]_vars

\* one crawl with the default options, started on the bare origin
InitCrawlDefault == InitCrawl /\ config = NavigationCrawler(CrawlerOptions([headless |-> TRUE]))
                              /\ baseUrl = P_root /\ maxPages = 2

\* the crawl loop when every awaited page fetch settles and the loop's own steps run
SpecFair == InitCrawlDefault /\ [][NextCrawl]_vars /\ WF_vars(NextCrawl)

(* --------------------- EnhancedImageDownloader ------------------------ *)
\* number of downloadImage calls explored in SpecDl
MaxDownloads == 3

OutputDir == <<"o", "u", "t">>
FallbackDir == <<"f", "a", "l", "l", "b", "a", "c", "k">>
ImagePrefix == <<"i", "m", "a", "g", "e", "_">>
JpgSuffix == <<".", "j", "p", "g">>

\* calculateHash: the MD5 digest of a buffer, taken as collision-free on the buffers
\* of the model: the digest is the tagged buffer
calculateHash(buffer) == <<"md5">> \o buffer

\* simpleHash keeps a 32-bit integer; it is held here as two unsigned 16-bit halves
\* (two's complement), which keeps every intermediate product small
hashStep(h, c) ==
  LET lo1 == h.lo * 31 + c
      hi1 == h.hi * 31 + (lo1 \div 65536)
  IN [hi |-> hi1 % 65536, lo |-> lo1 % 65536]

RECURSIVE hashChars(_, _, _)
hashChars(h, str, i) ==
  IF i > Len(str) THEN h ELSE hashChars(hashStep(h, charCode(str[i])), str, i + 1)

\* Math.abs of the 32-bit value
abs32(h) ==
  IF h.hi < 32768 THEN h
  ELSE IF h.lo = 0 THEN [hi |-> 65536 - h.hi, lo |-> 0]
  ELSE [hi |-> 65535 - h.hi, lo |-> 65536 - h.lo]

\* Number.prototype.toString(36)
RECURSIVE toString36(_)
toString36(n) ==
  IF n.hi = 0 /\ n.lo < 36 THEN <<Digits36[n.lo + 1]>>
  ELSE LET t == (n.hi % 36) * 65536 + n.lo
       IN toString36([hi |-> n.hi \div 36, lo |-> t \div 36]) \o <<Digits36[(t % 36) + 1]>>

simpleHash(str) == toString36(abs32(hashChars([hi |-> 0, lo |-> 0], str, 1)))

\* path.join of relative parts: the non-empty parts, separated by "/"
pathJoin(parts) == joinSlash(filterNonEmpty(parts))

\* index of the last "/" of p, 0 if none
RECURSIVE lastSlash(_, _)
lastSlash(p, i) == IF i = 0 THEN 0 ELSE IF p[i] = "/" THEN i ELSE lastSlash(p, i - 1)

\* path.dirname
dirname(p) == LET j == lastSlash(p, Len(p)) IN IF j <= 1 THEN <<".">> ELSE SubSeq(p, 1, j - 1)

getLocalPathFromUrl(imageUrl, base) ==
  LET url == ParseUrl(imageUrl)
      baseUrlObj == ParseUrl(base)
      cleanPath == IF startsWith(url.pathname, <<"/">>) THEN Tail(url.pathname) ELSE url.pathname
  IN IF url.ok /\ baseUrlObj.ok
     THEN pathJoin(<<OutputDir, url.hostname, cleanPath>>)
     ELSE pathJoin(<<OutputDir, FallbackDir, ImagePrefix \o simpleHash(imageUrl) \o JpgSuffix>>)

\* what a server may answer: status, declared content-length (-1: no such header)
\* and the body as the chunks of the 'data' events
Responses ==
  {[status |-> 404, declared |-> -1, chunks |-> <<>>],
   [status |-> 200, declared |-> -1, chunks |-> <<<<7>>>>],
   [status |-> 200, declared |-> 2, chunks |-> <<<<7>>, <<8>>>>],
   [status |-> 200, declared |-> 5, chunks |-> <<<<7>>>>],
   [status |-> 200, declared |-> 1, chunks |-> <<<<7, 8>>, <<9>>>>]}

\* the arguments of downloadAllImages: pages with their images, and the base url
BatchArgs ==
  {[pages |-> <<[images |-> <<I_a, I_copy>>], [images |-> <<I_copy, I_a>>]>>, baseUrl |-> P_root],
   [pages |-> <<[images |-> <<I_a, <<>>, I_a2>>], [title |-> <<"t">>]>>, baseUrl |-> P_root],
   [pages |-> <<[images |-> <<I_rel, I_copy>>]>>, baseUrl |-> P_root],
   [pages |-> <<[images |-> <<I_a2>>]>>, baseUrl |-> P_root],
   [pages |-> <<[images |-> <<I_copy>>], [images |-> <<I_copy>>]>>, baseUrl |-> P_root],
   [pages |-> <<[images |-> <<I_a, I_copy>>]>>, baseUrl |-> Host]}

\* the Set of the non-empty img.src of the pages, in insertion order
RECURSIVE addSrcs_NoSet(_, _)
addSrcs_NoSet(acc, srcs) ==
  IF Len(srcs) = 0 THEN acc
  ELSE addSrcs_NoSet(IF Head(srcs) # <<>> THEN Append(acc, Head(srcs)) ELSE acc, Tail(srcs))

RECURSIVE addSrcs(_, _)
addSrcs(acc, srcs) ==
  IF Len(srcs) = 0 THEN acc
  ELSE LET src == Head(srcs)
       IN addSrcs(IF src # <<>> /\ \A i \in DOMAIN acc : acc[i] # src THEN Append(acc, src) ELSE acc,
                  Tail(srcs))

RECURSIVE uniqueImageUrls(_, _)
uniqueImageUrls(acc, pages) ==
  IF Len(pages) = 0 THEN acc
  ELSE uniqueImageUrls(IF "images" \in DOMAIN Head(pages) THEN addSrcs(acc, Head(pages).images)
                       ELSE acc, Tail(pages))

\* this.urlToPath.has(imageUrl): the url was processed before
urlProcessed_Never(imageUrl) == FALSE
urlProcessed(imageUrl) == imageUrl \in DOMAIN urlToPath

\* this.hashToPath.has(hash): a file with this content exists
contentExists_Never(hash) == FALSE
contentExists(hash) == hash \in DOMAIN hashToPath

\* the comparison of the two size checks: n > this.maxSize
tooLarge_Never(n) == FALSE
tooLarge(n) == n > maxSize

\* the promise of the running call settles; a promise settles once
Settle(d, result) ==
  IF d.result.kind = "none" THEN [d EXCEPT !.phase = "settled", !.result = result]
  ELSE [d EXCEPT !.phase = "settled"]

\* downloadImage up to the return of its promise: the cache check, the URL parse,
\* mkdirSync and protocol.get
CallDownloadImage(imageUrl, base) ==
  LET d0 == [phase |-> "requested", url |-> imageUrl, localPath |-> <<>>,
             downloadedData |-> <<>>, downloadedSize |-> 0, declared |-> -1, chunks |-> <<>>,
             requested |-> FALSE, destroyed |-> FALSE, result |-> NoResult,
             before |-> [hashToPath |-> hashToPath, urlToHash |-> urlToHash,
                         urlToPath |-> urlToPath, disk |-> disk, writes |-> Len(writes)]]
  IN IF urlProcessed(imageUrl)
     THEN /\ stats' = [stats EXCEPT !.total = @ + 1, !.duplicates = @ + 1]
          /\ dl' = Settle(d0, [kind |-> "resolved", url |-> imageUrl,
                               localPath |-> urlToPath[imageUrl],
                               hash |-> urlToHash[imageUrl],
                               duplicate |-> TRUE, cached |-> TRUE])
          /\ UNCHANGED <<dirs, requests>>
     ELSE IF ~ParseUrl(imageUrl).ok
     THEN /\ stats' = [stats EXCEPT !.total = @ + 1, !.failed = @ + 1]
          /\ dl' = Settle(d0, [kind |-> "rejected", error |-> "Invalid URL"])
          /\ UNCHANGED <<dirs, requests>>
     ELSE LET localPath == getLocalPathFromUrl(imageUrl, base)
          IN /\ stats' = [stats EXCEPT !.total = @ + 1]
             /\ dirs' = dirs \cup {dirname(localPath)}
             /\ requests' = Append(requests, imageUrl)
             /\ dl' = [d0 EXCEPT !.localPath = localPath, !.requested = TRUE]

\* an event a request will still emit after its promise has settled: the url, the event
\* and the downloadImage call it belongs to (the one reported next)
LateEvent(imageUrl, event) ==
  [url |-> imageUrl, event |-> event, call |-> Len(calls) + 1, fired |-> FALSE]

\* the response callback. A response that is not 200 rejects and leaves the request as it
\* is: nothing reads the response, so the request's 'timeout' is still to come
OnResponse ==
  /\ dl.phase = "requested"
  /\ ~dl.destroyed
  /\ \E response \in Responses :
       IF response.status # 200
       THEN /\ dl' = Settle(dl, [kind |-> "rejected", error |-> "HTTP status"])
            /\ late' = Append(late, LateEvent(dl.url, "timeout"))
       ELSE IF response.declared > 0 /\ tooLarge(response.declared)
       THEN /\ dl' = Settle([dl EXCEPT !.destroyed = TRUE, !.declared = response.declared],
                            [kind |-> "rejected", error |-> "Image too large"])
            /\ UNCHANGED late
       ELSE /\ dl' = [dl EXCEPT !.phase = "receiving", !.declared = response.declared,
                                !.chunks = response.chunks]
            /\ UNCHANGED late
  /\ UNCHANGED <<serverVars, navVars, apiVars, crawlVars, batch, calls, maxSize, regVars, stats, disk, dirs, manifest, writes, requests>>

\* response.on('data')
OnData ==
  /\ dl.phase = "receiving"
  /\ Len(dl.chunks) > 0
  /\ LET chunk == Head(dl.chunks)
         downloadedSize == dl.downloadedSize + Len(chunk)
     IN IF tooLarge(downloadedSize)
        THEN dl' = Settle([dl EXCEPT !.downloadedSize = downloadedSize, !.destroyed = TRUE,
                                     !.chunks = <<>>],
                          [kind |-> "rejected", error |-> "Image size exceeded maximum"])
        ELSE dl' = [dl EXCEPT !.downloadedSize = downloadedSize,
                              !.downloadedData = @ \o chunk, !.chunks = Tail(@)]
  /\ UNCHANGED <<serverVars, navVars, apiVars, crawlVars, batch, calls, maxSize, regVars, stats, disk, dirs, manifest, writes, requests, late>>

\* response.on('end')
OnEnd ==
  /\ dl.phase = "receiving"
  /\ Len(dl.chunks) = 0
  /\ LET hash == calculateHash(dl.downloadedData)
     IN IF contentExists(hash)
        THEN LET existingPath == hashToPath[hash]
             IN /\ urlToHash' = MapSet(urlToHash, dl.url, hash)
                /\ urlToPath' = MapSet(urlToPath, dl.url, existingPath)
                /\ stats' = [stats EXCEPT !.duplicates = @ + 1]
                /\ dl' = Settle(dl, [kind |-> "resolved", url |-> dl.url,
                                     localPath |-> existingPath, hash |-> hash,
                                     duplicate |-> TRUE, cached |-> FALSE])
                /\ UNCHANGED <<hashToPath, disk, writes>>
        ELSE /\ disk' = MapSet(disk, dl.localPath, dl.downloadedData)
             /\ writes' = Append(writes, [url |-> dl.url, path |-> dl.localPath, hash |-> hash])
             /\ hashToPath' = MapSet(hashToPath, hash, dl.localPath)
             /\ urlToHash' = MapSet(urlToHash, dl.url, hash)
             /\ urlToPath' = MapSet(urlToPath, dl.url, dl.localPath)
             /\ stats' = [stats EXCEPT !.downloaded = @ + 1, !.totalSize = @ + dl.downloadedSize]
             /\ dl' = Settle(dl, [kind |-> "resolved", url |-> dl.url,
                                  localPath |-> dl.localPath, hash |-> hash,
                                  duplicate |-> FALSE, cached |-> FALSE])
  /\ UNCHANGED <<serverVars, navVars, apiVars, crawlVars, batch, calls, maxSize, dirs, manifest, requests, late>>

\* request.on('error'): the connection fails before a response arrives
OnError ==
  /\ dl.phase = "requested"
  /\ ~dl.destroyed
  /\ stats' = [stats EXCEPT !.failed = @ + 1]
  /\ dl' = Settle(dl, [kind |-> "rejected", error |-> "connection error"])
  /\ UNCHANGED <<serverVars, navVars, apiVars, crawlVars, batch, calls, maxSize, regVars, disk, dirs, manifest, writes, requests, late>>

\* a timeout handler that saves what has arrived so far
OnTimeout_KeepsPartial ==
  /\ dl.phase \in {"requested", "receiving"}
  /\ ~dl.destroyed
  /\ stats' = [stats EXCEPT !.failed = @ + 1]
  /\ late' = IF dl.phase = "requested" THEN Append(late, LateEvent(dl.url, "error")) ELSE late
  /\ disk' = IF dl.downloadedData # <<>> THEN MapSet(disk, dl.localPath, dl.downloadedData) ELSE disk
  /\ dl' = Settle([dl EXCEPT !.destroyed = TRUE, !.chunks = <<>>],
                  [kind |-> "rejected", error |-> "Download timeout"])
  /\ UNCHANGED <<serverVars, navVars, apiVars, crawlVars, batch, calls, maxSize, regVars, dirs, manifest, writes, requests>>

\* request.on('timeout'): the socket was idle for the configured time, before the
\* response or between two chunks. request.destroy() before any response makes the request
\* emit 'error' (socket hang up) afterwards
OnTimeout ==
  /\ dl.phase \in {"requested", "receiving"}
  /\ ~dl.destroyed
  /\ stats' = [stats EXCEPT !.failed = @ + 1]
  /\ late' = IF dl.phase = "requested" THEN Append(late, LateEvent(dl.url, "error")) ELSE late
  /\ dl' = Settle([dl EXCEPT !.destroyed = TRUE, !.chunks = <<>>],
                  [kind |-> "rejected", error |-> "Download timeout"])
  /\ UNCHANGED <<serverVars, navVars, apiVars, crawlVars, batch, calls, maxSize, regVars, disk, dirs, manifest, writes, requests>>

\* request.on('timeout') of a request whose promise was rejected on its status: the idle
\* socket times out, the handler destroys the request and counts a failure; reject is void
LateTimeout ==
  /\ \E i \in DOMAIN late :
       /\ late[i].event = "timeout"
       /\ ~late[i].fired
       /\ late[i].call <= Len(calls)
       /\ late' = [late EXCEPT ![i].fired = TRUE]
  /\ stats' = [stats EXCEPT !.failed = @ + 1]
  /\ UNCHANGED <<serverVars, navVars, apiVars, crawlVars, batch, calls, dl, maxSize, regVars, disk, dirs, manifest, writes, requests>>

\* request.on('error') of a request the timeout handler destroyed before any response:
\* the handler counts a failure; reject is void
LateError ==
  /\ \E i \in DOMAIN late :
       /\ late[i].event = "error"
       /\ ~late[i].fired
       /\ late[i].call <= Len(calls)
       /\ late' = [late EXCEPT ![i].fired = TRUE]
  /\ stats' = [stats EXCEPT !.failed = @ + 1]
  /\ UNCHANGED <<serverVars, navVars, apiVars, crawlVars, batch, calls, dl, maxSize, regVars, disk, dirs, manifest, writes, requests>>

\* downloadAllImages up to its loop
BatchStart ==
  /\ batch.phase \in {"idle", "returned"}
  /\ ~manifest.generated
  /\ \E args \in BatchArgs :
       LET queue == uniqueImageUrls(<<>>, args.pages)
       IN /\ Len(calls) + Len(queue) <= MaxDownloads
          /\ batch' = [phase |-> "running", pages |-> args.pages, baseUrl |-> args.baseUrl,
                       queue |-> queue, totalImages |-> Len(queue), current |-> 0,
                       success |-> <<>>, failed |-> <<>>, duplicates |-> <<>>,
                       firstRequest |-> Len(requests) + 1]
  /\ UNCHANGED <<serverVars, navVars, apiVars, crawlVars, maxSize, regVars, stats, disk, dirs, dl, manifest, writes, requests, calls, late>>

\* one loop iteration up to its await: downloadImage is called for the next url
BatchNext ==
  /\ batch.phase = "running"
  /\ dl.phase = "idle"
  /\ Len(batch.queue) > 0
  /\ batch' = [batch EXCEPT !.current = @ + 1]
  /\ CallDownloadImage(Head(batch.queue), batch.baseUrl)
  /\ UNCHANGED <<serverVars, navVars, apiVars, crawlVars, maxSize, regVars, disk, manifest, writes, calls, late>>

\* the rest of the iteration: the awaited promise has settled. A result is filed and the
\* 100 ms delay awaited; a rejection goes to the catch block, which files the failure only
BatchResult ==
  /\ batch.phase = "running"
  /\ dl.phase = "settled"
  /\ batch' = IF dl.result.kind = "resolved"
              THEN IF dl.result.duplicate
                   THEN [batch EXCEPT !.duplicates = Append(@, dl.result), !.queue = Tail(@)]
                   ELSE [batch EXCEPT !.success = Append(@, dl.result), !.queue = Tail(@)]
              ELSE [batch EXCEPT !.failed = Append(@, [url |-> dl.url, error |-> dl.result.error]),
                                 !.queue = Tail(@)]
  /\ calls' = Append(calls, [url |-> dl.url, requested |-> dl.requested, result |-> dl.result,
                             delayed |-> dl.result.kind = "resolved"])
  /\ dl' = Idle
  /\ UNCHANGED <<serverVars, navVars, apiVars, crawlVars, maxSize, regVars, stats, disk, dirs, manifest, writes, requests, late>>

\* the loop is over: the statistics are attached and the results returned
BatchReturn ==
  /\ batch.phase = "running"
  /\ dl.phase = "idle"
  /\ Len(batch.queue) = 0
  /\ batch' = [batch EXCEPT !.phase = "returned"] @@ [statistics |-> stats]
  /\ UNCHANGED <<serverVars, navVars, apiVars, crawlVars, maxSize, regVars, stats, disk, dirs, dl, manifest, writes, requests, calls, late>>

manifestImages ==
  {[url |-> url, localPath |-> urlToPath[url], hash |-> urlToHash[url],
    duplicate |-> hashToPath[urlToHash[url]] # urlToPath[url],
    originalFile |-> IF hashToPath[urlToHash[url]] # urlToPath[url]
                     THEN hashToPath[urlToHash[url]] ELSE null] : url \in DOMAIN urlToPath}

generateManifest ==
  [generated |-> TRUE,
   statistics |-> [total_urls |-> stats.total, unique_files |-> stats.downloaded,
                   duplicates |-> stats.duplicates, failed |-> stats.failed,
                   total_size_bytes |-> stats.totalSize],
   images |-> manifestImages,
   hash_map |-> {[hash |-> h, localPath |-> hashToPath[h]] : h \in DOMAIN hashToPath}]

\* saveResults calls generateManifest once the results are in
GenerateManifest ==
  /\ batch.phase = "returned"
  /\ ~manifest.generated
  /\ manifest' = generateManifest
  /\ UNCHANGED <<serverVars, navVars, apiVars, crawlVars, maxSize, regVars, stats, disk, dirs, dl, batch, writes, requests, calls, late>>

InitCrawlerIdle ==
  /\ config = NavigationCrawler([headless |-> TRUE])
  /\ urlLevels = EmptyMap
  /\ levelCounts = EmptyMap
  /\ categoryPages = EmptyMap
  /\ navCalls = 0
  /\ navLast = [op |-> "none"]
  /\ baseUrl = P_root
  /\ maxPages = 0
  /\ pendingUrls = <<>>
  /\ visitedUrls = {}
  /\ scrapedPages = <<>>
  /\ failedPages = <<>>
  /\ pc = "download"
  /\ cur = [url |-> null, parentUrl |-> null, level |-> 0]
  /\ admitted = <<>>
  /\ discovered = <<>>
  /\ dispatched = <<>>

InitDl ==
  /\ InitCrawlerIdle
  /\ InitDownloader
  /\ InitServerIdle
  /\ maxSize = 2

NextDl ==
  \/ BatchStart \/ BatchNext \/ BatchResult \/ BatchReturn \/ GenerateManifest
  \/ OnResponse \/ OnData \/ OnEnd \/ OnError \/ OnTimeout

SpecDl == InitDl /\ [][NextDl]_vars

(* ------------- scrapeWebsite: the crawl, then the downloads ------------ *)
\* the img.src lists a scraped page may carry
PageImages == {<<I_a>>, <<I_copy, I_a>>}

\* Phase 2 entered while the loop is still running
DownloadPhase_Early ==
  /\ pc = "loop"
  /\ Len(scrapedPages) > 0
  /\ batch.phase = "idle"
  /\ batch' = [phase |-> "running", pages |-> <<[images |-> <<I_a>>]>>, baseUrl |-> baseUrl,
               queue |-> <<I_a>>, totalImages |-> 1, current |-> 0,
               success |-> <<>>, failed |-> <<>>, duplicates |-> <<>>,
               firstRequest |-> Len(requests) + 1]
  /\ UNCHANGED <<serverVars, navVars, apiVars, crawlVars, maxSize, regVars, stats, disk, dirs, dl, manifest,
                 writes, requests, late, calls>>

\* Phase 2 of scrapeWebsite: downloadAllImages(this.scrapedPages, this.baseUrl) up to its loop
DownloadPhase ==
  /\ pc = "done"
  /\ \E images \in [DOMAIN scrapedPages -> PageImages] :
       LET pages == [i \in DOMAIN scrapedPages |-> [images |-> images[i]]]
           queue == uniqueImageUrls(<<>>, pages)
       IN batch' = [phase |-> "running", pages |-> pages, baseUrl |-> baseUrl,
                    queue |-> queue, totalImages |-> Len(queue), current |-> 0,
                    success |-> <<>>, failed |-> <<>>, duplicates |-> <<>>,
                    firstRequest |-> Len(requests) + 1]
  /\ pc' = "download"
  /\ UNCHANGED <<serverVars, navVars, apiVars, baseUrl, maxPages, pendingUrls, visitedUrls, scrapedPages,
                 failedPages, cur, admitted, discovered, dispatched, maxSize, regVars, stats, disk,
                 dirs, dl, manifest, writes, requests, late, calls>>

NextSite ==
  \/ NextCrawl
  \/ DownloadPhase \/ BatchNext \/ BatchResult \/ BatchReturn
  \/ OnResponse \/ OnData \/ OnEnd \/ OnError \/ OnTimeout \/ LateTimeout \/ LateError

SpecSite == InitCrawlDefault /\ [][NextSite]_vars

(* --------------- NavigationCrawler used through its API --------------- *)
\* constructor options of a NavigationCrawler built directly
NavConfigs ==
  {[maxLevel |-> 0],
   [legalKeywords |-> <<K_AGB>>],
   [maxLevel |-> 2, legalKeywords |-> <<K_terms, K_agb>>]}

NavUrls == {P_root, P_a, P_b, P_agb, P_AGB}
NavParents == {null, <<>>, P_root, P_a, P_agb}

InitNav ==
  /\ \E cfg \in NavConfigs : config = NavigationCrawler(cfg)
  /\ urlLevels = EmptyMap
  /\ levelCounts = EmptyMap
  /\ categoryPages = EmptyMap
  /\ navCalls = 0
  /\ navLast = [op |-> "none"]
  /\ baseUrl = P_root
  /\ maxPages = 0
  /\ pendingUrls = <<>>
  /\ visitedUrls = {}
  /\ scrapedPages = <<>>
  /\ failedPages = <<>>
  /\ pc = "api"
  /\ cur = [url |-> null, parentUrl |-> null, level |-> 0]
  /\ admitted = <<>>
  /\ discovered = <<>>
  /\ dispatched = <<>>
  /\ InitDownloader
  /\ InitServerIdle
  /\ maxSize = 2

CallRegisterUrl ==
  /\ pc = "api"
  /\ navCalls < MaxNavCalls
  /\ \E url \in NavUrls, parentUrl \in NavParents :
       LET reg == registerUrl(url, parentUrl)
       IN /\ urlLevels' = reg.urlLevels
          /\ levelCounts' = reg.levelCounts
          /\ navLast' = [op |-> "registerUrl", url |-> url, parentUrl |-> parentUrl,
                         ret |-> reg.ret]
  /\ navCalls' = navCalls + 1
  /\ UNCHANGED <<serverVars, dlVars, config, categoryPages, crawlVars>>

\* determineLevel recording the level it computed, as registerUrl does
CallDetermineLevel_Registers ==
  /\ pc = "api"
  /\ navCalls < MaxNavCalls
  /\ \E url \in NavUrls, parentUrl \in NavParents :
       LET reg == registerUrl(url, parentUrl)
       IN /\ urlLevels' = reg.urlLevels
          /\ levelCounts' = reg.levelCounts
          /\ navLast' = [op |-> "determineLevel", url |-> url, parentUrl |-> parentUrl,
                         ret |-> reg.ret]
  /\ navCalls' = navCalls + 1
  /\ UNCHANGED <<serverVars, dlVars, config, categoryPages, crawlVars>>

CallDetermineLevel ==
  /\ pc = "api"
  /\ navCalls < MaxNavCalls
  /\ \E url \in NavUrls, parentUrl \in NavParents :
       navLast' = [op |-> "determineLevel", url |-> url, parentUrl |-> parentUrl,
                   ret |-> determineLevel(url, parentUrl)]
  /\ navCalls' = navCalls + 1
  /\ UNCHANGED <<serverVars, dlVars, navVars, crawlVars>>

CallShouldCrawl ==
  /\ pc = "api"
  /\ navCalls < MaxNavCalls
  /\ \E url \in NavUrls, parentUrl \in {null, P_root, P_a} :
       navLast' = [op |-> "shouldCrawl", url |-> url, parentUrl |-> parentUrl,
                   ret |-> shouldCrawl(url, parentUrl)]
  /\ navCalls' = navCalls + 1
  /\ UNCHANGED <<serverVars, dlVars, navVars, crawlVars>>

CallShouldCrawlLevel3 ==
  /\ pc = "api"
  /\ navCalls < MaxNavCalls
  /\ \E url \in NavUrls :
       navLast' = [op |-> "shouldCrawlLevel3", url |-> url,
                   ret |-> shouldCrawlLevel3(categoryPages, url)]
  /\ navCalls' = navCalls + 1
  /\ UNCHANGED <<serverVars, dlVars, navVars, crawlVars>>

CallRegisterLevel3Page ==
  /\ pc = "api"
  /\ navCalls < MaxNavCalls
  /\ \E url \in NavUrls :
       /\ categoryPages' = registerLevel3Page(categoryPages, url)
       /\ navLast' = [op |-> "registerLevel3Page", url |-> url]
  /\ navCalls' = navCalls + 1
  /\ UNCHANGED <<serverVars, dlVars, config, urlLevels, levelCounts, crawlVars>>

\* a frontier item as scrapePage pushes it; the level field tells apart items that agree
\* in all the comparator reads
Item(url, isNavigation, level) ==
  [url |-> url, parentUrl |-> P_root, level |-> level, isNavigation |-> isNavigation]

\* the arrays handed to prioritizeUrls: each holds distinct items
NavFrontiers ==
  {<<>>,
   <<Item(P_a, FALSE, 2), Item(P_b, TRUE, 2)>>,
   <<Item(P_a, TRUE, 2), Item(P_b, TRUE, 2), Item(P_a, TRUE, 3)>>,
   <<Item(P_agb, FALSE, 0), Item(P_a, TRUE, 2), Item(P_root, TRUE, 1)>>,
   <<Item(P_b, FALSE, 2), Item(P_a, FALSE, 2), Item(P_AGB, TRUE, 0), Item(P_a, TRUE, 2)>>,
   <<Item(P_root, FALSE, 1), Item(P_agb, TRUE, 0), Item(P_b, TRUE, 2), Item(P_agb, FALSE, 0)>>}

CallPrioritizeUrls ==
  /\ pc = "api"
  /\ navCalls < MaxNavCalls
  /\ \E urls \in NavFrontiers :
       navLast' = [op |-> "prioritizeUrls", urls |-> urls, ret |-> prioritizeUrls(urls)]
  /\ navCalls' = navCalls + 1
  /\ UNCHANGED <<serverVars, dlVars, navVars, crawlVars>>

CallGetStats ==
  /\ pc = "api"
  /\ navCalls < MaxNavCalls
  /\ navLast' = [op |-> "getStats", ret |-> getStats]
  /\ navCalls' = navCalls + 1
  /\ UNCHANGED <<serverVars, dlVars, navVars, crawlVars>>

NextNav ==
  \/ CallRegisterUrl \/ CallDetermineLevel \/ CallShouldCrawl \/ CallShouldCrawlLevel3
  \/ CallRegisterLevel3Page \/ CallPrioritizeUrls \/ CallGetStats

SpecNav == InitNav /\ [][NextNav]_vars

(* ------------------- ContentScraper (plain crawl) --------------------- *)
\* normalizeUrl(url, baseUrl) for an absolute href: the parsed URL's href, nothing stripped
ContentScraper_normalizeUrl(href) ==
  LET u == ParseUrl(href)
  IN IF ~u.ok THEN null ELSE Scheme \o u.hostname \o u.pathname \o u.search

\* links.filter(...): the first link of every absoluteUrl is kept
RECURSIVE removeDuplicates(_, _)
removeDuplicates(kept, links) ==
  IF Len(links) = 0 THEN kept
  ELSE removeDuplicates(IF \E i \in DOMAIN kept : kept[i] = Head(links) THEN kept
                        ELSE Append(kept, Head(links)), Tail(links))

\* the absoluteUrl of every anchor extractLinks keeps, in document order, before the filter
RECURSIVE internalAnchors(_)
internalAnchors(hrefs) ==
  IF Len(hrefs) = 0 THEN <<>>
  ELSE LET href == Head(hrefs)
           absoluteUrl == ContentScraper_normalizeUrl(href)
       IN (IF href # <<>> /\ ~startsWith(href, <<"#">>) /\ absoluteUrl # null
              /\ isInternalUrl(absoluteUrl)
           THEN <<absoluteUrl>> ELSE <<>>) \o internalAnchors(Tail(hrefs))

ContentScraper_extractLinks(hrefs) == removeDuplicates(<<>>, internalAnchors(hrefs))

\* the forEach at the end of scrapePage: a link neither visited nor pending is pushed
RECURSIVE pushNewLinks(_, _, _)
pushNewLinks(pending, visited, links) ==
  IF Len(links) = 0 THEN pending
  ELSE pushNewLinks(IF Head(links) \notin visited
                       /\ ~(\E i \in DOMAIN pending : pending[i] = Head(links))
                    THEN Append(pending, Head(links)) ELSE pending,
                    visited, Tail(links))

\* the anchors of a fetched page in document order
PlainAnchors == {html.nav \o html.footer : html \in PageAnchors}

InitPlain ==
  /\ config = NavigationCrawler([headless |-> TRUE])
  /\ urlLevels = EmptyMap
  /\ levelCounts = EmptyMap
  /\ categoryPages = EmptyMap
  /\ navCalls = 0
  /\ navLast = [op |-> "none"]
  /\ baseUrl \in {P_root, P_rootSlash}
  /\ maxPages \in {2, 3}
  /\ pendingUrls = <<>>
  /\ visitedUrls = {}
  /\ scrapedPages = <<>>
  /\ failedPages = <<>>
  /\ pc = "new"
  /\ cur = [url |-> null]
  /\ admitted = <<>>
  /\ discovered = <<>>
  /\ dispatched = <<>>
  /\ InitDownloader
  /\ InitServerIdle
  /\ maxSize = 2

\* scrapeWebsite up to the loop: the start url is pushed
PlainStart ==
  /\ pc = "new"
  /\ pendingUrls' = Append(pendingUrls, baseUrl)
  /\ pc' = "loop"
  /\ UNCHANGED <<serverVars, dlVars, navVars, apiVars, baseUrl, maxPages, visitedUrls, scrapedPages, failedPages,
                 cur, admitted, discovered, dispatched>>

\* one loop iteration up to the await of scrapePage: shift, then continue when the url
\* is visited already, else call scrapePage
PlainShift ==
  /\ pc = "loop"
  /\ LoopCondition
  /\ pendingUrls' = Tail(pendingUrls)
  /\ IF Head(pendingUrls) \in visitedUrls
     THEN UNCHANGED <<pc, cur, dispatched>>
     ELSE /\ cur' = [url |-> Head(pendingUrls)]
          /\ dispatched' = Append(dispatched, [url |-> Head(pendingUrls)])
          /\ pc' = "fetch"
  /\ UNCHANGED <<serverVars, dlVars, navVars, apiVars, baseUrl, maxPages, visitedUrls, scrapedPages, failedPages,
                 admitted, discovered>>

\* scrapePage returns: the page is recorded, its url marked visited, its new links pushed
PlainScrapeOk ==
  /\ pc = "fetch"
  /\ scrapedPages' = Append(scrapedPages, [url |-> cur.url])
  /\ visitedUrls' = visitedUrls \cup {cur.url}
  /\ \E hrefs \in PlainAnchors :
       pendingUrls' = pushNewLinks(pendingUrls, visitedUrls \cup {cur.url},
                                   ContentScraper_extractLinks(hrefs))
  /\ pc' = "loop"
  /\ UNCHANGED <<serverVars, dlVars, navVars, apiVars, baseUrl, maxPages, failedPages, cur, admitted,
                 discovered, dispatched>>

\* scrapePage throws: its catch block records the failure, scrapeWebsite logs and goes on
PlainScrapeFail ==
  /\ pc = "fetch"
  /\ failedPages' = Append(failedPages, [url |-> cur.url])
  /\ pc' = "loop"
  /\ UNCHANGED <<serverVars, dlVars, navVars, apiVars, baseUrl, maxPages, pendingUrls, visitedUrls, scrapedPages,
                 cur, admitted, discovered, dispatched>>

PlainLoopExit ==
  /\ pc = "loop"
  /\ ~LoopCondition
  /\ pc' = "done"
  /\ UNCHANGED <<serverVars, dlVars, navVars, apiVars, baseUrl, maxPages, pendingUrls, visitedUrls, scrapedPages,
                 failedPages, cur, admitted, discovered, dispatched>>

NextPlain ==
  PlainStart \/ PlainShift \/ PlainScrapeOk \/ PlainScrapeFail \/ PlainLoopExit

SpecPlain == InitPlain /\ [][NextPlain]_vars

(* ------------------- ScraperServer: the job registry ------------------- *)
\* the jobs one run of the server accepts
MaxJobs == 3
\* jobHistory keeps its last 100 entries
HistoryLimit == 100
\* the counts onProgress reports
ProgressValues == {1, 2}

\* Array.prototype.slice(-n)
sliceLast(arr, n) ==
  IF Len(arr) > n THEN SubSeq(arr, Len(arr) - n + 1, Len(arr)) ELSE arr

\* job.<field> = value on the job object itself: activeJobs, jobHistory and
\* the closure of runScrapingJob all hold the same object
setJobField(jobId, field, value) ==
  [jobs EXCEPT ![jobId] = [jobs[jobId] EXCEPT ![field] = value]]

\* moveToHistory(jobId)
moveToHistory(jobId) ==
  IF jobId \in activeJobs
  THEN /\ jobHistory' = sliceLast(Append(jobHistory, jobId), HistoryLimit)
       /\ activeJobs' = activeJobs \ {jobId}
  ELSE UNCHANGED <<activeJobs, jobHistory>>

\* generateJobId(): a fresh id
generateJobId == Cardinality(DOMAIN jobs) + 1

\* the server after construction: no scrape has been started
InitServer ==
  /\ InitCrawlerIdle
  /\ InitDownloader
  /\ InitServerIdle
  /\ maxSize = 2

\* POST /api/scrape: 400 without baseUrl, else the job is created as
\* running, put into activeJobs, and runScrapingJob is started, not awaited
PostScrape ==
  /\ Cardinality(DOMAIN jobs) < MaxJobs
  /\ \E hasBaseUrl \in BOOLEAN :
       IF ~hasBaseUrl
       THEN UNCHANGED <<jobs, activeJobs, scrapes>>
       ELSE LET jobId == generateJobId
            IN /\ jobs' = MapSet(jobs, jobId, [status |-> "running", current |-> 0])
               /\ activeJobs' = activeJobs \cup {jobId}
               /\ scrapes' = scrapes \cup {jobId}
  /\ UNCHANGED <<jobHistory, navVars, apiVars, crawlVars, dlVars>>

\* POST /api/jobs/:jobId/cancel: 404 unless the job is active, else the
\* status is set and the job moved to the history; the scrape is not stopped
PostCancel ==
  /\ \E jobId \in 1..MaxJobs :
       IF jobId \notin activeJobs
       THEN UNCHANGED <<jobs, activeJobs, jobHistory>>
       ELSE /\ jobs' = setJobField(jobId, "status", "cancelled")
            /\ moveToHistory(jobId)
  /\ UNCHANGED <<scrapes, navVars, apiVars, crawlVars, dlVars>>

\* the onProgress callback of a scrape that is still running
OnProgress ==
  /\ \E jobId \in scrapes : \E p \in ProgressValues :
       /\ p > jobs[jobId].current
       /\ jobs' = setJobField(jobId, "current", p)
  /\ UNCHANGED <<activeJobs, jobHistory, scrapes, navVars, apiVars, crawlVars, dlVars>>

\* runScrapingJob after scrapeAndExport resolved
ScrapeResolved ==
  /\ \E jobId \in scrapes :
       /\ jobs' = setJobField(jobId, "status", "completed")
       /\ moveToHistory(jobId)
       /\ scrapes' = scrapes \ {jobId}
  /\ UNCHANGED <<navVars, apiVars, crawlVars, dlVars>>

\* runScrapingJob after scrapeAndExport rejected
ScrapeRejected ==
  /\ \E jobId \in scrapes :
       /\ jobs' = setJobField(jobId, "status", "failed")
       /\ moveToHistory(jobId)
       /\ scrapes' = scrapes \ {jobId}
  /\ UNCHANGED <<navVars, apiVars, crawlVars, dlVars>>

NextServer ==
  \/ PostScrape
  \/ PostCancel
  \/ OnProgress
  \/ ScrapeResolved
  \/ ScrapeRejected

SpecServer == InitServer /\ [][NextServer]_vars

(* ============================== claims ================================ *)
\* url contains keyword k, compared without regard to case
ContainsIgnoringCase(url, k) == includes(toLowerCase(url), toLowerCase(k))
MatchesLegalKeyword(url) ==
  \E i \in 1..Len(config.legalKeywords) : ContainsIgnoringCase(url, config.legalKeywords[i])

DeepestLimit ==
  IF config.maxLevel \in DOMAIN config.levelLimits THEN config.levelLimits[config.maxLevel] ELSE 0

AdmittedDeepest(category) ==
  {admitted[i].url : i \in {j \in DOMAIN admitted :
       admitted[j].level = config.maxLevel /\ getCategory(admitted[j].url) = category}}

\* C2 (as stated): at level maxLevel no category ever has more than
\* levelLimits[maxLevel] urls admitted to the frontier, and no category bucket is
\* longer than that limit (-1 is unlimited).
C2_CategoryCapAtDeepestLevel ==
  DeepestLimit # -1 =>
    /\ \A i \in DOMAIN admitted :
         admitted[i].level = config.maxLevel =>
           Cardinality(AdmittedDeepest(getCategory(admitted[i].url))) <= DeepestLimit
    /\ \A c \in DOMAIN categoryPages : Len(categoryPages[c]) <= DeepestLimit

\* C3 (as stated): when an iteration of the crawl loop takes a url to fetch while an
\* unvisited legal-page url is pending, the url it takes is a legal-page url.
C3_LegalPagesDequeuedFirst ==
  [][(pc = "loop" /\ pc' = "fetch" /\
      \E i \in DOMAIN pendingUrls :
         isLegalPage(pendingUrls[i].url) /\ pendingUrls[i].url \notin visitedUrls)
     => isLegalPage(cur'.url)]_vars

\* C4 (as stated): registerUrl on a url that is already registered returns the stored
\* level and changes neither urlLevels nor levelCounts.
C4_RegisterUrlIdempotent ==
  [][(navCalls' = navCalls + 1 /\ navLast'.op = "registerUrl" /\
      navLast'.url \in DOMAIN urlLevels)
     => /\ navLast'.ret = urlLevels[navLast'.url]
        /\ urlLevels' = urlLevels
        /\ levelCounts' = levelCounts]_vars

\* C9 (as stated): determineLevel returns 0 when the url contains a configured legal
\* keyword, compared case-insensitively; otherwise 1 when parentUrl is null; otherwise
\* the level stored for parentUrl plus 1.
C9_DetermineLevelRule ==
  navLast.op = "determineLevel" =>
    IF MatchesLegalKeyword(navLast.url) THEN navLast.ret = 0
    ELSE IF navLast.parentUrl = null THEN navLast.ret = 1
    ELSE navLast.parentUrl \in DOMAIN urlLevels =>
           navLast.ret = urlLevels[navLast.parentUrl] + 1

\* C10 (as stated): determineLevel(u, null) returns 1 for every url u.
C10_NoParentIsLevelOne ==
  (navLast.op = "determineLevel" /\ navLast.parentUrl = null) => navLast.ret = 1

\* C10 (amended): determineLevel(u, null) returns 1 for every url u that contains no
\* configured legal keyword; a url that matches one gets level 0 also without parent.
C10_NoParentNonLegalIsLevelOne ==
  (navLast.op = "determineLevel" /\ navLast.parentUrl = null) =>
    /\ ~MatchesLegalKeyword(navLast.url) => navLast.ret = 1
    /\ isLegalPage(navLast.url) => navLast.ret = 0

C10_Witness ==
  /\ navLast.op = "determineLevel"
  /\ navLast.parentUrl = null
  /\ ~MatchesLegalKeyword(navLast.url)
  /\ navLast.ret = 1

\* C11: in a crawl registerUrl runs once for each url handed to scrapePage, between its
\* dequeue and the fetch, and for no other url: the registered urls are exactly the
\* dispatched ones, none is dispatched twice, each level counter equals the number of
\* dispatches at that level, and the level stored for a url is still the one its
\* registration returned, also after the url was found again under another parent.
DispatchedUrls == {dispatched[i].url : i \in DOMAIN dispatched}

C11_RegisteredOnceAtDispatch ==
  /\ DOMAIN urlLevels = DispatchedUrls
  /\ visitedUrls = DispatchedUrls
  /\ \A i, j \in DOMAIN dispatched : dispatched[i].url = dispatched[j].url => i = j
  /\ \A i \in DOMAIN dispatched : urlLevels[dispatched[i].url] = dispatched[i].level
  /\ \A l \in DOMAIN levelCounts :
       levelCounts[l] = Cardinality({i \in DOMAIN dispatched : dispatched[i].level = l})
  /\ pc = "fetch" => cur.url \in DOMAIN urlLevels /\ urlLevels[cur.url] = cur.level
  /\ \A i \in DOMAIN discovered :
       (~discovered[i].visited /\ discovered[i].url \notin DispatchedUrls)
         => discovered[i].url \notin DOMAIN urlLevels

\* a registered url is found again on a later page, where it classifies at another
\* level than the stored one
C11_Witness ==
  \E i \in DOMAIN discovered :
    /\ discovered[i].visited
    /\ discovered[i].url \in DOMAIN urlLevels
    /\ discovered[i].level # urlLevels[discovered[i].url]
    /\ Len(dispatched) >= 2

\* C12 (as stated): a link found on a scraped page that is internal, not visited and
\* classified at level maxLevel is pushed to the frontier whenever fewer than
\* levelLimits[maxLevel] urls of its category were pushed at that level before it,
\* however many urls of other categories were pushed or visited.
C12_DeepestAdmissionByCategoryOnly ==
  \A i \in DOMAIN discovered :
    (/\ ~discovered[i].visited
     /\ discovered[i].level = config.maxLevel
     /\ discovered[i].prior < DeepestLimit)
    => discovered[i].enqueued

\* C13 (as stated): a link found on a scraped page that is internal, not visited and
\* classified at a level L <= maxLevel whose configured limit is -1 is pushed to the
\* frontier.
C13_UnlimitedLevelAdmitsAll ==
  \A i \in DOMAIN discovered :
    (/\ ~discovered[i].visited
     /\ discovered[i].level <= config.maxLevel
     /\ discovered[i].level \in DOMAIN config.levelLimits
     /\ config.levelLimits[discovered[i].level] = -1)
    => discovered[i].enqueued

\* C14: no url whose level exceeds maxLevel is pushed to the frontier or visited:
\* every pending item, every item ever pushed, every dispatched url and every
\* registered url has a level in 0..maxLevel, and a link classified above maxLevel
\* is not enqueued.
C14_LevelsWithinMaxLevel ==
  /\ \A u \in DOMAIN urlLevels : urlLevels[u] \in 0..config.maxLevel
  /\ \A i \in DOMAIN pendingUrls : pendingUrls[i].level \in 0..config.maxLevel
  /\ \A i \in DOMAIN admitted : admitted[i].level \in 0..config.maxLevel
  /\ \A i \in DOMAIN dispatched : dispatched[i].level \in 0..config.maxLevel
  /\ \A i \in DOMAIN discovered :
       discovered[i].level > config.maxLevel => ~discovered[i].enqueued

\* an unvisited link of a page at level maxLevel is found and rejected
C14_Witness ==
  \E i \in DOMAIN discovered :
    /\ ~discovered[i].visited
    /\ discovered[i].level = config.maxLevel + 1
    /\ discovered[i].level \in DOMAIN config.levelLimits
    /\ ~discovered[i].enqueued

\* C15: a link found on a scraped page that is internal, not visited and contains a
\* legal keyword (compared without regard to case) is pushed to the frontier at level
\* 0, whatever the level of the page it was found on, maxLevel, the level limits and
\* counts and the category buckets are.
C15_LegalLinkAlwaysEnqueued ==
  \A i \in DOMAIN discovered :
    (~discovered[i].visited /\ MatchesLegalKeyword(discovered[i].url))
    => /\ discovered[i].enqueued
       /\ discovered[i].level = 0
       /\ \E j \in DOMAIN pendingUrls :
            /\ pendingUrls[j].url = discovered[i].url
            /\ pendingUrls[j].parentUrl = discovered[i].parentUrl
            /\ pendingUrls[j].level = 0

\* a legal link is found on a page of level maxLevel, after a page of a limited level
\* was registered
C15_Witness ==
  \E i \in DOMAIN discovered :
    /\ ~discovered[i].visited
    /\ MatchesLegalKeyword(discovered[i].url)
    /\ discovered[i].enqueued
    /\ urlLevels[discovered[i].parentUrl] = config.maxLevel
    /\ \E l \in DOMAIN levelCounts :
         l \in DOMAIN config.levelLimits /\ config.levelLimits[l] # -1
         /\ levelCounts[l] >= config.levelLimits[l]

\* C16 (as stated): when the crawl loop of scrapeWebsite has ended, every internal
\* legal-page url that was found among the navigation or footer links of a fetched
\* page has been visited.
C16_LegalPagesVisitedAtReturn ==
  pc = "done" =>
    \A i \in DOMAIN admitted :
      isLegalPage(admitted[i].url) => admitted[i].url \in visitedUrls

\* C17 (as stated): in the list prioritizeUrls returns for the frontier, of two pending
\* items of the same level the one that came from a navigation element is never behind
\* the one that did not.
C17_NavigationFirstWithinLevel ==
  LET sorted == prioritizeUrls(pendingUrls)
  IN \A i, j \in DOMAIN sorted :
       (i < j /\ sorted[i].level = sorted[j].level)
         => ~(~sorted[i].isNavigation /\ sorted[j].isNavigation)

\* the sort key of a pending item: legal flag, level, navigation flag; and its order
SortKey(item) ==
  <<IF item.level = 0 THEN 0 ELSE 1, item.level, IF item.isNavigation THEN 0 ELSE 1>>

KeyLeq(a, b) ==
  \/ a[1] < b[1]
  \/ a[1] = b[1] /\ a[2] < b[2]
  \/ a[1] = b[1] /\ a[2] = b[2] /\ a[3] <= b[3]

\* C18 (as stated): the item an iteration of the crawl loop takes to fetch has a
\* minimal sort key (legal flag, level, navigation flag) among the pending items not
\* yet visited; so no url of level k is taken while one of a lower level is pending.
C18_DequeueFollowsSortKey ==
  [][(pc = "loop" /\ pc' = "fetch")
     => \E i \in DOMAIN pendingUrls :
          /\ pendingUrls[i].url = cur'.url
          /\ pendingUrls[i].parentUrl = cur'.parentUrl
          /\ \A j \in DOMAIN pendingUrls :
               pendingUrls[j].url \notin visitedUrls
                 => KeyLeq(SortKey(pendingUrls[i]), SortKey(pendingUrls[j]))]_vars

\* C19 (as stated): with maxLevel = 2 and levelLimits = {1: -1, 2: 1}, seed "/" and a
\* root page that links to a legal page and to two pages of one category, in this
\* order: both category pages classify as level 2, only the first is enqueued, the
\* legal page is enqueued at level 0, and the legal page is visited before any of
\* the category pages.
C19_Config ==
  /\ config.maxLevel = 2
  /\ config.levelLimits = (1 :> -1) @@ (2 :> 1)
  /\ baseUrl = P_rootSlash

C19_Scenario ==
  /\ (/\ C19_Config
      /\ Len(dispatched) = 1
      /\ Len(discovered) = 3
      /\ <<discovered[1].url, discovered[2].url, discovered[3].url>> = <<P_agb, P_x, P_y>>)
     => /\ discovered[1].level = 0 /\ discovered[1].enqueued
        /\ discovered[2].level = 2 /\ discovered[3].level = 2
        /\ getCategory(discovered[2].url) = getCategory(discovered[3].url)
        /\ discovered[2].enqueued
        /\ ~discovered[3].enqueued
  /\ (/\ C19_Config
      /\ Len(admitted) >= 2
      /\ admitted[1].parentUrl = P_rootSlash /\ admitted[1].url = P_agb
      /\ admitted[2].parentUrl = P_rootSlash /\ admitted[2].url = P_x)
     => \A i \in DOMAIN dispatched :
          dispatched[i].url \in {P_x, P_y} => \E j \in 1..(i - 1) : dispatched[j].url = P_agb

\* C20: in a crawl every url is handed to scrapePage at most once. Each dispatch ends
\* in exactly one of scrapedPages and failedPages, a url whose fetch failed is in
\* failedPages once, is never in scrapedPages, and stays visited, so no later link
\* to it and no pending copy of it is fetched.
FailedUrls == {failedPages[i].url : i \in DOMAIN failedPages}
ScrapedUrls == {scrapedPages[i].url : i \in DOMAIN scrapedPages}

C20_EachUrlFetchedAtMostOnce ==
  /\ Cardinality(DispatchedUrls) = Len(dispatched)
  /\ Cardinality(FailedUrls) = Len(failedPages)
  /\ Cardinality(ScrapedUrls) = Len(scrapedPages)
  /\ FailedUrls \cap ScrapedUrls = {}
  /\ FailedUrls \cup ScrapedUrls =
       DispatchedUrls \ (IF pc = "fetch" THEN {cur.url} ELSE {})
  /\ FailedUrls \subseteq visitedUrls
  /\ \A i \in DOMAIN discovered : discovered[i].url \in FailedUrls => ~discovered[i].enqueued

\* a page scraped after a failed fetch links to the url that failed
C20_Witness ==
  \E i \in DOMAIN discovered :
    /\ discovered[i].url \in FailedUrls
    /\ ~discovered[i].enqueued
    /\ Len(scrapedPages) >= 2

\* the calls that resolved after a transfer of their own (no cache hit)
Transferred == {k \in DOMAIN calls : calls[k].result.kind = "resolved" /\ ~calls[k].result.cached}

\* C1: every content hash is written at most once; the write is registered in
\* hashToPath; a call that completes a transfer reports the path of the one file
\* written for its content, and is a duplicate exactly when another url wrote it.
C1_OneFilePerContent ==
  /\ \A i, j \in DOMAIN writes : writes[i].hash = writes[j].hash => i = j
  /\ \A i \in DOMAIN writes :
       writes[i].hash \in DOMAIN hashToPath /\ hashToPath[writes[i].hash] = writes[i].path
  /\ \A k \in Transferred :
       \E i \in DOMAIN writes :
          /\ writes[i].hash = calls[k].result.hash
          /\ calls[k].result.localPath = writes[i].path
          /\ calls[k].result.duplicate = (writes[i].url # calls[k].url)
  /\ Cardinality(DOMAIN disk) <= Cardinality(DOMAIN hashToPath)

C1_Witness ==
  \E i, j \in Transferred :
     /\ i < j
     /\ calls[i].url # calls[j].url
     /\ calls[i].result.hash = calls[j].result.hash
     /\ ~calls[i].result.duplicate
     /\ calls[j].result.duplicate
     /\ calls[j].result.localPath = calls[i].result.localPath
     /\ Len(writes) = 1

SameAsEarlier(i, j) ==
  /\ calls[j].result.kind = "resolved"
  /\ calls[j].result.localPath = calls[i].result.localPath
  /\ calls[j].result.hash = calls[i].result.hash

\* C5 (as stated): a call for a url attempted before, whatever the outcome of that
\* attempt, issues no request and returns the first attempt's path and hash.
C5_CachedAfterAnyAttempt ==
  \A j \in DOMAIN calls : \A i \in 1..(j - 1) :
     calls[i].url = calls[j].url =>
       /\ ~calls[j].requested
       /\ calls[i].result.kind = "resolved" => SameAsEarlier(i, j)

\* C5 (amended): a call for a url whose earlier attempt completed (stored a file or
\* was a content duplicate) issues no request and returns that attempt's path and
\* hash, and no url is written twice; a well-formed url whose earlier attempts all
\* failed is requested again.
C5_CachedAfterCompletedAttempt ==
  /\ \A j \in DOMAIN calls : \A i \in 1..(j - 1) :
       (calls[i].url = calls[j].url /\ calls[i].result.kind = "resolved") =>
         ~calls[j].requested /\ SameAsEarlier(i, j)
  /\ \A i, j \in DOMAIN writes : writes[i].url = writes[j].url => i = j
  /\ \A j \in DOMAIN calls :
       (ParseUrl(calls[j].url).ok /\
        \A i \in 1..(j - 1) : calls[i].url = calls[j].url => calls[i].result.kind = "rejected")
       => calls[j].requested

C5_Witness ==
  \E j \in DOMAIN calls : \E i \in 1..(j - 1) :
     /\ calls[i].url = calls[j].url
     /\ calls[i].result.kind = "resolved"
     /\ calls[i].requested
     /\ ~calls[j].requested
     /\ calls[j].result.cached

ManifestEntry(url) == CHOOSE e \in manifest.images : e.url = url

\* C6 (as stated): in the manifest, two distinct urls with identical content carry
\* the same localPath and exactly one of the two is marked duplicate.
C6_ManifestMarksOneDuplicate ==
  manifest.generated =>
    \A u, v \in DOMAIN urlToHash :
       (u # v /\ urlToHash[u] = urlToHash[v] /\
        Cardinality({w \in DOMAIN urlToHash : urlToHash[w] = urlToHash[u]}) = 2)
       => /\ ManifestEntry(u).localPath = ManifestEntry(v).localPath
          /\ ManifestEntry(u).duplicate # ManifestEntry(v).duplicate

\* the srcs the pages of the running batch reference
ReferencedSrcs ==
  UNION {{batch.pages[p].images[i] : i \in DOMAIN batch.pages[p].images} :
           p \in {q \in DOMAIN batch.pages : "images" \in DOMAIN batch.pages[q]}} \ {<<>>}

Occurrences(list, url) == Cardinality({i \in DOMAIN list : list[i].url = url})

\* C7: when downloadAllImages returns, every unique url the pages reference is in
\* exactly one of success, duplicates and failed, the three lists hold nothing else,
\* and no url was requested twice by the batch.
C7_EveryUrlExactlyOnce ==
  batch.phase = "returned" =>
    /\ \A u \in ReferencedSrcs :
         Occurrences(batch.success, u) + Occurrences(batch.duplicates, u)
           + Occurrences(batch.failed, u) = 1
    /\ Len(batch.success) + Len(batch.duplicates) + Len(batch.failed)
         = Cardinality(ReferencedSrcs)
    /\ \A i, j \in batch.firstRequest..Len(requests) : requests[i] = requests[j] => i = j

C7_Witness ==
  /\ batch.phase = "returned"
  /\ Len(batch.pages) = 2
  /\ Len(batch.failed) = 1 /\ batch.failed[1].url = I_a
  /\ Len(batch.success) = 1 /\ batch.success[1].url = I_copy
  /\ \A p \in DOMAIN batch.pages : batch.pages[p].images \in {<<I_a, I_copy>>, <<I_copy, I_a>>}

C21_FailedFetchIsTerminal ==
  /\ \A i, j \in DOMAIN dispatched : dispatched[i].url = dispatched[j].url => i = j
  /\ \A i, j \in DOMAIN failedPages : failedPages[i].url = failedPages[j].url => i = j

\* C22: a page fetch failure never ends the crawl: the step that records the failure
\* appends the url to failedPages, leaves the frontier alone and returns to the loop, which
\* goes on as its condition says; and whenever an iteration is over every visited url is in
\* exactly one of scrapedPages and failedPages, |scrapedPages| + |failedPages| = |visitedUrls|.
C22_FailureNeverEndsCrawl ==
  /\ [](pc \in {"loop", "done"} =>
          /\ Len(scrapedPages) + Len(failedPages) = Cardinality(visitedUrls)
          /\ \A u \in visitedUrls : (u \in ScrapedUrls) # (u \in FailedUrls))
  /\ [][failedPages' # failedPages =>
          /\ failedPages' = Append(failedPages, [url |-> cur.url])
          /\ pendingUrls' = pendingUrls
          /\ pc' = "loop"]_vars
  /\ [](pc = "done" => ~LoopCondition)

\* a fetch failed and a page dispatched after it was scraped
C22_Witness ==
  /\ pc = "loop"
  /\ \E i, j \in DOMAIN dispatched :
       i < j /\ dispatched[i].url \in FailedUrls /\ dispatched[j].url \in ScrapedUrls

\* C23 as stated: the number of page fetches dispatched (urls visited) never exceeds maxPages
C23_DispatchedWithinBudget ==
  Len(dispatched) <= maxPages /\ Cardinality(visitedUrls) <= maxPages

\* C23 amended: the number of pages scraped never exceeds maxPages; the number of fetches
\* dispatched never exceeds maxPages plus the number of fetches that failed
C23_ScrapedWithinBudget ==
  /\ Len(scrapedPages) <= maxPages
  /\ Len(dispatched) <= maxPages + Len(failedPages)
  /\ Cardinality(visitedUrls) <= maxPages + Len(failedPages)

\* the budget is used up by scraped pages while more fetches than maxPages were dispatched
C23_Witness ==
  Len(scrapedPages) = maxPages /\ Len(failedPages) >= 1 /\ Len(dispatched) > maxPages

\* C24: with every page fetch settling, the crawl loop of scrapeWebsite terminates, and
\* once it has, the frontier is empty or scrapedPages holds maxPages pages
C24_CrawlLoopTerminates ==
  /\ <>(pc = "done")
  /\ [](pc = "done" => (Len(pendingUrls) = 0 \/ Len(scrapedPages) = maxPages))

\* the loop has ended on the page budget with urls left in the frontier
C24_Witness ==
  pc = "done" /\ Len(pendingUrls) > 0 /\ Len(scrapedPages) = maxPages /\ Len(failedPages) >= 1

\* a page fetch is awaited / the promise of an asset transfer is pending
PageInFlight == pc = "fetch"
AssetInFlight == dl.phase \in {"requested", "receiving"}

\* C25: crawl and download are strictly sequential. At most one page fetch or asset
\* transfer is awaited at any moment; a url is dispatched, and a request issued, only when
\* every earlier one has settled and was reported; every request is issued after the crawl
\* loop has ended, and the crawl's state does not change any more from then on; the registry
\* maps and the files change only in the step that settles the pending transfer, and the
\* level counters only in the loop step that dispatches a url, so nothing a request does
\* after its result was reported touches them.
C25_StrictlySequential ==
  /\ [](~(PageInFlight /\ AssetInFlight))
  /\ [](Len(dispatched) = Len(scrapedPages) + Len(failedPages) + (IF PageInFlight THEN 1 ELSE 0))
  /\ [](Len(requests) <= Len(calls) + 1)
  /\ []((batch.phase # "idle" \/ Len(requests) > 0 \/ Len(calls) > 0 \/ dl.phase # "idle")
          => pc = "download" /\ ~LoopCondition)
  /\ [][dispatched' # dispatched => ~PageInFlight /\ ~AssetInFlight /\ batch.phase = "idle"]_vars
  /\ [][requests' # requests =>
          /\ ~AssetInFlight /\ pc = "download"
          /\ Len(requests) = Cardinality({k \in DOMAIN calls : calls[k].requested})]_vars
  /\ [][pc = "download" => UNCHANGED <<navVars, pendingUrls, visitedUrls, scrapedPages,
                                        failedPages, dispatched>>]_vars
  /\ [][<<regVars, disk>>' # <<regVars, disk>> => dl.phase = "receiving" /\ dl'.phase = "settled"
                                                     /\ dl.result.kind = "none"]_vars
  /\ [][<<urlLevels, levelCounts>>' # <<urlLevels, levelCounts>> =>
          pc = "loop" /\ pc' = "fetch"]_vars
  /\ [][late' # late /\ Len(late') = Len(late) => UNCHANGED <<regVars, disk, navVars>>]_vars

\* after a crawl that scraped a page, a request whose result had been reported fired its
\* late event while the transfer of the next url was pending, and that transfer was saved
C25_Witness ==
  /\ pc = "download"
  /\ Len(scrapedPages) >= 1
  /\ Len(calls) = 2
  /\ late # <<>> /\ late[1].fired /\ late[1].call = 1
  /\ calls[2].result.kind = "resolved"
  /\ stats.failed > 0

\* the ways a download fails that C26 names: status, timeout, transport error, malformed url
PlainFailures == {"HTTP status", "Download timeout", "connection error", "Invalid URL"}

\* C26: a downloadImage call rejected for a status other than 200, a timeout, a transport
\* error or a malformed url leaves hashToPath, urlToHash, urlToPath and the files on disk
\* (their set and their bytes) exactly as they were when the call was made.
C26_FailedDownloadLeavesNoTrace ==
  (dl.phase = "settled" /\ dl.result.kind = "rejected" /\ dl.result.error \in PlainFailures) =>
    /\ hashToPath = dl.before.hashToPath
    /\ urlToHash = dl.before.urlToHash
    /\ urlToPath = dl.before.urlToPath
    /\ DOMAIN disk = DOMAIN dl.before.disk
    /\ disk = dl.before.disk

\* a transfer that timed out after part of the body had arrived, with files on disk, after
\* an earlier call that failed in one of the other ways
C26_Witness ==
  /\ dl.phase = "settled"
  /\ dl.result = [kind |-> "rejected", error |-> "Download timeout"]
  /\ dl.downloadedData # <<>>
  /\ DOMAIN disk # {}
  /\ \E k \in DOMAIN calls : calls[k].result.kind = "rejected"
                             /\ calls[k].result.error \in PlainFailures \ {"Download timeout"}

\* the downloadImage calls that ended in failure
FailedCalls == {k \in DOMAIN calls : calls[k].result.kind = "rejected"}

\* C27: the statistics of the manifest account for every attempt: total_urls =
\* unique_files + duplicates + failed, and failed is the number of download attempts that
\* ended in failure.
C27_StatisticsAccountForEveryAttempt ==
  manifest.generated =>
    /\ manifest.statistics.total_urls =
         manifest.statistics.unique_files + manifest.statistics.duplicates
           + manifest.statistics.failed
    /\ manifest.statistics.failed = Cardinality(FailedCalls)

\* outputDir/hostname(assetUrl)/path of assetUrl without its leading slash
MirrorPath(assetUrl) ==
  LET u == ParseUrl(assetUrl)
  IN OutputDir \o <<"/">> \o u.hostname \o <<"/">> \o Tail(u.pathname)

\* C28: for every well-formed asset url getLocalPathFromUrl returns outputDir/hostname/path
\* without the leading slash, whatever the baseUrl argument and whatever was downloaded
\* before; only an unparsable asset url gets a path under fallback/.
C28_LocalPathFromAssetUrlOnly ==
  (dl.phase # "idle" /\ dl.requested /\ ParseUrl(dl.url).ok) =>
    dl.localPath = MirrorPath(dl.url)

\* the attempts of the running downloadAllImages call that were reported
ReportedInBatch ==
  IF batch.phase = "idle" THEN {}
  ELSE LET n == batch.current - (IF dl.phase = "idle" THEN 0 ELSE 1)
       IN (Len(calls) - n + 1)..Len(calls)

\* C29: in downloadAllImages the inter-request delay elapses between the end of any
\* attempt, successful or failed, and the start of the next attempt.
C29_DelayAfterEveryAttempt ==
  \A k \in ReportedInBatch :
    (calls[k].requested /\ (k < Len(calls) \/ dl.phase # "idle")) => calls[k].delayed

\* C30: canonical files are never overwritten: for each hash h in hashToPath the file at
\* hashToPath[h] holds exactly the bytes whose hash is h, also after later downloads of
\* other urls whose content differs.
C30_CanonicalFilesKeepTheirBytes ==
  \A h \in DOMAIN hashToPath :
    /\ hashToPath[h] \in DOMAIN disk
    /\ calculateHash(disk[hashToPath[h]]) = h

\* C31: urlToHash and urlToPath have the same keys, every url's path is the canonical path
\* of its hash (urlToPath[u] = hashToPath[urlToHash[u]]), and an entry of hashToPath, once
\* set, is never changed or removed.
C31_RegistryMapsAgree ==
  /\ [](/\ DOMAIN urlToHash = DOMAIN urlToPath
        /\ \A u \in DOMAIN urlToPath :
             /\ urlToHash[u] \in DOMAIN hashToPath
             /\ urlToPath[u] = hashToPath[urlToHash[u]])
  /\ [][\A h \in DOMAIN hashToPath :
          h \in DOMAIN hashToPath' /\ hashToPath'[h] = hashToPath[h]]_vars

\* two urls are registered, one of them as a duplicate under the path of the other, and
\* a second content has its own entry
C31_Witness ==
  /\ \E u, v \in DOMAIN urlToPath :
       u # v /\ urlToHash[u] = urlToHash[v] /\ urlToPath[u] = urlToPath[v]
  /\ Cardinality(DOMAIN hashToPath) >= 2

\* the levels with a finite limit to which the category rule (level 3 only) does not apply
CappedLevels ==
  {L \in DOMAIN config.levelLimits : config.levelLimits[L] # -1 /\ L # 3}

\* C32: for a level L with a finite limit n and no category rule, levelCounts[L], the
\* number of urls registered at level L, never exceeds n.
C32_LevelCountWithinLimit ==
  \A L \in CappedLevels : L \in DOMAIN levelCounts => levelCounts[L] <= config.levelLimits[L]

\* C33: the frontier never holds two pending items for the same url, and never holds an
\* item for a url that has been visited.
C33_FrontierHoldsEachUrlOnce ==
  /\ \A i, j \in DOMAIN pendingUrls : pendingUrls[i].url = pendingUrls[j].url => i = j
  /\ \A i \in DOMAIN pendingUrls : pendingUrls[i].url \notin visitedUrls

\* the sum of the byLevel counts of getStats()
RECURSIVE sumCounts(_)
sumCounts(entries) ==
  IF entries = {} THEN 0
  ELSE LET e == CHOOSE x \in entries : TRUE IN e.count + sumCounts(entries \ {e})

\* C34: the sum of levelCounts over all levels equals the number of entries of urlLevels
\* and the number of visited urls, so getStats().totalUrls equals the sum of its byLevel
\* counts.
C34_LevelCountsSumToVisited ==
  /\ sumValues(levelCounts, DOMAIN levelCounts) = Cardinality(DOMAIN urlLevels)
  /\ Cardinality(DOMAIN urlLevels) = Cardinality(visitedUrls)
  /\ DOMAIN urlLevels = visitedUrls
  /\ getStats.totalUrls = sumCounts(getStats.byLevel)
  /\ Cardinality(getStats.byLevel) = Cardinality(DOMAIN levelCounts)

\* three urls were visited, a legal page among them, and the iteration is over
C34_Witness ==
  /\ pc = "loop"
  /\ Cardinality(visitedUrls) >= 3
  /\ 0 \in DOMAIN levelCounts
  /\ Cardinality(DOMAIN levelCounts) >= 2

\* positions of an item in an array
Positions(arr, x) == {i \in DOMAIN arr : arr[i] = x}
Sign(n) == IF n < 0 THEN -1 ELSE IF n > 0 THEN 1 ELSE 0

\* C35: prioritizeUrls returns a permutation of its input, is stable (two items that
\* compare equal keep their discovery order) and applying it again changes nothing. The
\* output is in the comparator's order, and the comparator is consistent on the input
\* (antisymmetric and transitive), which is what makes the order well defined.
C35_PrioritizeIsStablePermutation ==
  navLast.op = "prioritizeUrls" =>
    LET in == navLast.urls
        out == navLast.ret
    IN /\ Len(out) = Len(in)
       /\ \A i \in DOMAIN in : Cardinality(Positions(out, in[i])) = Cardinality(Positions(in, in[i]))
       /\ \A i, j \in DOMAIN out : i < j => compareUrls(out[i], out[j]) <= 0
       /\ \A i, j \in DOMAIN in :
            (i < j /\ compareUrls(in[i], in[j]) = 0) =>
              \A p \in Positions(out, in[i]), q \in Positions(out, in[j]) : p < q
       /\ prioritizeUrls(out) = out
       /\ \A i, j \in DOMAIN in : Sign(compareUrls(in[i], in[j])) = 0 - Sign(compareUrls(in[j], in[i]))
       /\ \A i, j, k \in DOMAIN in :
            (compareUrls(in[i], in[j]) <= 0 /\ compareUrls(in[j], in[k]) <= 0)
              => compareUrls(in[i], in[k]) <= 0

\* an array of four items was reordered, items of equal rank among them, with one of its
\* urls registered before
C35_Witness ==
  /\ navLast.op = "prioritizeUrls"
  /\ Len(navLast.urls) = 4
  /\ navLast.ret # navLast.urls
  /\ \E i, j \in DOMAIN navLast.urls : i < j /\ compareUrls(navLast.urls[i], navLast.urls[j]) = 0
  /\ \E i \in DOMAIN navLast.urls : navLast.urls[i].url \in DOMAIN urlLevels

\* the operations C36 names as readers
ReadOnlyOps == {"determineLevel", "shouldCrawl", "shouldCrawlLevel3", "prioritizeUrls", "getStats"}

\* C36: levelCounts is changed only by registerUrl and no entry of it ever decreases or
\* disappears; determineLevel, shouldCrawl, shouldCrawlLevel3, prioritizeUrls and getStats
\* leave urlLevels, levelCounts and categoryPages unchanged.
C36_OnlyRegisterUrlCounts ==
  /\ [][levelCounts' # levelCounts => navLast'.op = "registerUrl"]_vars
  /\ [][\A L \in DOMAIN levelCounts :
          L \in DOMAIN levelCounts' /\ levelCounts'[L] >= levelCounts[L]]_vars
  /\ [][(navCalls' # navCalls /\ navLast'.op \in ReadOnlyOps) =>
          UNCHANGED <<urlLevels, levelCounts, categoryPages>>]_vars

\* a reader was called as the third call on a crawler whose maps had been filled
C36_Witness ==
  /\ navLast.op \in ReadOnlyOps
  /\ navLast.op # "determineLevel"
  /\ navCalls = 3
  /\ DOMAIN levelCounts # {}
  /\ DOMAIN categoryPages # {}

\* url parses and has the hostname of baseUrl
OnSeedHost(url) ==
  ParseUrl(url).ok /\ ParseUrl(baseUrl).ok /\ ParseUrl(url).hostname = ParseUrl(baseUrl).hostname

\* C37: a crawl never leaves the seed's host: each url in the frontier or in the visited
\* set has the hostname of baseUrl.
C37_CrawlStaysOnSeedHost ==
  /\ \A i \in DOMAIN pendingUrls : OnSeedHost(pendingUrls[i].url)
  /\ \A u \in visitedUrls : OnSeedHost(u)

\* the page just scraped carried a link to another host next to internal links (the page
\* whose internal links are the root and /AGB), and the frontier is not empty
C37_Witness ==
  /\ Len(discovered) = 2
  /\ discovered[1].url = P_root
  /\ discovered[2].url = P_AGB
  /\ Len(pendingUrls) > 0
  /\ Cardinality(visitedUrls) >= 2

\* the number of entries of jobHistory that are the job jobId
timesInHistory(jobId) ==
  Cardinality({i \in DOMAIN jobHistory : jobHistory[i] = jobId})

\* C38: cancellation is final: a job that the cancel request has set to
\* cancelled and moved to the history keeps the status cancelled in every
\* later step, also when its scrape resolves or rejects afterwards, and it
\* is in jobHistory exactly once.
C38_CancellationIsFinal ==
  /\ [][\A jobId \in DOMAIN jobs :
          (jobs[jobId].status = "cancelled" /\ timesInHistory(jobId) = 1)
            => jobs'[jobId].status = "cancelled"]_vars
  /\ [](\A jobId \in DOMAIN jobs :
          jobs[jobId].status = "cancelled" => timesInHistory(jobId) = 1)

====
